---- MODULE Spec2Model ----
(***************************************************************************)
(* Untrusted document ingestion and archive sandbox of test-llm-apis:      *)
(* src/src/zip-processor.js, src/src/file-processor.js and the extension   *)
(* lists of upload-middleware.js (src/unnamed/part_005).                   *)
(*                                                                         *)
(* File names and messages are TLA+ strings.  A text is a sequence of      *)
(* chunks [src, len]: len characters that come from src (a literal, or the *)
(* bytes of an archive entry).  Entry bytes are taken to be one character  *)
(* per byte, and getData() yields header.size bytes.                       *)
(***************************************************************************)
EXTENDS Integers, Sequences, FiniteSets, TLC

(***************************************************************************)
(* Program constants                                                       *)
(***************************************************************************)
MAX_UNCOMPRESSED_SIZE == 52428800
MAX_FILES_IN_ZIP == 100
MAX_NESTING_DEPTH == 2
ZIP_BOMB_RATIO == 100
MAX_EXTRACTED_TEXT_LENGTH == 50000

\* a deny-list that misses the shared libraries
DangerousWithoutLibraries ==
  { ".exe", ".bat", ".cmd", ".app",
    ".msi", ".deb", ".rpm", ".jar", ".scr", ".vbs", ".apk", ".ipa" }

DANGEROUS_EXTENSIONS ==
  { ".exe", ".dll", ".so", ".dylib", ".bat", ".cmd", ".app",
    ".msi", ".deb", ".rpm", ".jar", ".scr", ".vbs", ".apk", ".ipa" }

ALLOWED_EXTENSIONS ==
  { ".txt", ".md", ".rtf", ".pdf", ".docx", ".doc", ".xlsx", ".xls",
    ".pptx", ".ppt", ".odt", ".ods", ".odp", ".csv", ".tsv",
    ".py", ".js", ".ts", ".java", ".kt", ".cpp", ".c", ".h", ".cs",
    ".go", ".rs", ".rb", ".php", ".swift", ".r", ".sql", ".scala",
    ".sh", ".ps1",
    ".json", ".jsonl", ".xml", ".yaml", ".yml", ".toml", ".ini", ".cfg",
    ".ipynb", ".pbix", ".rmd", ".parquet",
    ".html", ".htm", ".css", ".scss", ".sass", ".jsx", ".tsx", ".vue",
    ".svelte",
    ".tex", ".rst", ".adoc",
    ".zip" }

BLOCKED_EXTENSIONS ==
  { ".exe", ".dll", ".so", ".dylib", ".bat", ".cmd", ".app",
    ".msi", ".deb", ".rpm", ".jar", ".scr", ".vbs", ".apk", ".ipa",
    ".env" }

\* processZipEntry: the extensions decoded as UTF-8 text
textExtensions ==
  { ".txt", ".md", ".json", ".xml", ".yaml", ".yml", ".csv", ".tsv",
    ".py", ".js", ".ts", ".java", ".cpp", ".c", ".h", ".cs", ".go",
    ".rs", ".rb", ".php", ".swift", ".sql", ".html", ".css", ".sh" }

\* processFile: the cases of the switch
PlainTextCases ==
  { ".txt", ".md", ".rtf", ".json", ".jsonl", ".xml", ".yaml", ".yml",
    ".toml", ".ini", ".cfg", ".csv", ".tsv", ".html", ".htm", ".css",
    ".scss", ".sass", ".tex", ".rst", ".adoc" }

CodeCases ==
  { ".py", ".js", ".ts", ".jsx", ".tsx", ".java", ".kt", ".cpp", ".c",
    ".h", ".cs", ".go", ".rs", ".rb", ".php", ".swift", ".r", ".sql",
    ".scala", ".sh", ".ps1", ".vue", ".svelte" }

ConverterCases == { ".pdf", ".docx", ".doc", ".xlsx", ".xls", ".ipynb" }

(***************************************************************************)
(* Strings: String.prototype.toLowerCase and path.extname (POSIX)          *)
(***************************************************************************)
UpperLetters == "ABCDEFGHIJKLMNOPQRSTUVWXYZ"
LowerLetters == "abcdefghijklmnopqrstuvwxyz"

CharAt(s, i) == SubSeq(s, i, i)

LowerOf == [ c \in { CharAt(UpperLetters, i) : i \in 1..26 } |->
             CharAt(LowerLetters, CHOOSE i \in 1..26 : CharAt(UpperLetters, i) = c) ]

LowerChar(c) == IF c \in DOMAIN LowerOf THEN LowerOf[c] ELSE c

RECURSIVE toLowerCase(_)
toLowerCase(s) ==
  IF Len(s) = 0 THEN ""
  ELSE LowerChar(CharAt(s, 1)) \o toLowerCase(SubSeq(s, 2, Len(s)))

\* index of the last occurrence of character c in s, 0 when there is none
LastIndexOf(s, c) ==
  LET hits == { i \in 1..Len(s) : CharAt(s, i) = c }
  IN  IF hits = {} THEN 0 ELSE CHOOSE i \in hits : \A j \in hits : j <= i

\* the last path segment (entry names carry no trailing separator here:
\* directory entries are skipped before extname is taken)
BaseName(p) == SubSeq(p, LastIndexOf(p, "/") + 1, Len(p))

\* path.extname: from the last '.' of the last segment to its end; empty
\* when there is no '.', when the only '.' is the first character of the
\* segment, and for the segment ".."
extname(p) ==
  LET base == BaseName(p)
      dot  == LastIndexOf(base, ".")
  IN  IF dot <= 1 \/ base = ".." THEN ""
      ELSE SubSeq(base, dot, Len(base))

\* an allow-list test that lets through whatever is not deny-listed
isAllowedExtensionDenyOnly(filename) ==
  toLowerCase(extname(filename)) \notin BLOCKED_EXTENSIONS

\* isAllowedExtension, line 181, over given lists
isAllowedOver(ext, allowed, blocked) == ext \in allowed /\ ext \notin blocked

isAllowedExtension(filename) ==
  isAllowedOver(toLowerCase(extname(filename)), ALLOWED_EXTENSIONS, BLOCKED_EXTENSIONS)

\* the allow-list in the order the Set was built in (Array.from)
AllowedInOrder ==
  << ".txt", ".md", ".rtf", ".pdf", ".docx", ".doc", ".xlsx", ".xls",
     ".pptx", ".ppt", ".odt", ".ods", ".odp", ".csv", ".tsv",
     ".py", ".js", ".ts", ".java", ".kt", ".cpp", ".c", ".h", ".cs",
     ".go", ".rs", ".rb", ".php", ".swift", ".r", ".sql", ".scala",
     ".sh", ".ps1",
     ".json", ".jsonl", ".xml", ".yaml", ".yml", ".toml", ".ini", ".cfg",
     ".ipynb", ".pbix", ".rmd", ".parquet",
     ".html", ".htm", ".css", ".scss", ".sass", ".jsx", ".tsx", ".vue",
     ".svelte",
     ".tex", ".rst", ".adoc",
     ".zip" >>

\* Array.prototype.join(', ') of words[lo..hi], by halving
RECURSIVE JoinRange(_, _, _)
JoinRange(words, lo, hi) ==
  IF lo > hi THEN ""
  ELSE IF lo = hi THEN words[lo]
  ELSE LET mid == (lo + hi) \div 2
       IN  JoinRange(words, lo, mid) \o ", " \o JoinRange(words, mid + 1, hi)

SecurityReason(ext) == "File type " \o ext \o " is not allowed for security reasons"

UnsupportedReason(ext) ==
  "File type " \o ext \o " is not supported. Allowed types: "
    \o JoinRange(AllowedInOrder, 1, Len(AllowedInOrder))

\* a filter that looks at the allow-list first
fileFilterAllowFirst(ext, allowed, blocked) ==
  IF ext \in allowed THEN [accepted |-> TRUE, error |-> ""]
  ELSE IF ext \in blocked THEN [accepted |-> FALSE, error |-> SecurityReason(ext)]
  ELSE [accepted |-> FALSE, error |-> UnsupportedReason(ext)]

\* fileFilter, lines 99-109, over given lists
fileFilterOver(ext, allowed, blocked) ==
  IF ext \in blocked THEN [accepted |-> FALSE, error |-> SecurityReason(ext)]
  ELSE IF ext \notin allowed THEN [accepted |-> FALSE, error |-> UnsupportedReason(ext)]
  ELSE [accepted |-> TRUE, error |-> ""]

fileFilter(originalname) ==
  fileFilterOver(toLowerCase(extname(originalname)),
                 ALLOWED_EXTENSIONS, BLOCKED_EXTENSIONS)

(***************************************************************************)
(* Texts                                                                   *)
(***************************************************************************)
Lit(s) == [src |-> s, len |-> Len(s)]

\* the sum of nums[lo..hi], by halving
RECURSIVE SumRange(_, _, _)
SumRange(nums, lo, hi) ==
  IF lo > hi THEN 0
  ELSE IF lo = hi THEN nums[lo]
  ELSE LET mid == (lo + hi) \div 2
       IN  SumRange(nums, lo, mid) + SumRange(nums, mid + 1, hi)

Sum(nums) == SumRange(nums, 1, Len(nums))

\* the length of the first n chunks of t
PrefixLen(t, n) == SumRange([i \in 1..Len(t) |-> t[i].len], 1, n)

TextLen(t) == PrefixLen(t, Len(t))

\* String.prototype.substring(0, k): the chunks that end within the first k
\* characters, and the part of the next chunk that fits
substring(t, k) ==
  LET whole == { n \in 0..Len(t) : PrefixLen(t, n) <= k }
      n     == CHOOSE m \in whole : \A j \in whole : j <= m
      room  == k - PrefixLen(t, n)
  IN  IF n = Len(t) \/ room <= 0 THEN SubSeq(t, 1, n)
      ELSE Append(SubSeq(t, 1, n), [src |-> t[n + 1].src, len |-> room])

\* a text is empty (falsy) when it has no character
IsEmptyText(t) == TextLen(t) = 0

(***************************************************************************)
(* validateZipSecurity                                                     *)
(***************************************************************************)
\* Number.prototype.toFixed(1) of u / c (u / 0 is Infinity)
toFixed1(u, c) ==
  IF c = 0 THEN "Infinity"
  ELSE LET tenths == (10 * u + (c \div 2)) \div c
       IN  ToString(tenths \div 10) \o "." \o ToString(tenths % 10)

TooManyReason == "Too many files in ZIP (max " \o ToString(MAX_FILES_IN_ZIP) \o ")"
TooBigReason ==
  "ZIP uncompressed size exceeds limit ("
    \o ToString(MAX_UNCOMPRESSED_SIZE \div 1048576) \o "MB)"
RatioReason(u, c) ==
  "Suspicious compression ratio (" \o toFixed1(u, c) \o ":1) - possible zip bomb"

\* ratio > ZIP_BOMB_RATIO for ratio = u / c, c > 0
RatioExceeds(u, c) ==
  \/ u \div c > ZIP_BOMB_RATIO
  \/ u \div c = ZIP_BOMB_RATIO /\ u % c > 0

\* a ratio test that also fires on a zero compressed size (u / 0 = Infinity)
SuspiciousRatioUnguarded(u, c) == IF c = 0 THEN u > 0 ELSE RatioExceeds(u, c)

\* lines 148-150
SuspiciousRatio(u, c) == c > 0 /\ RatioExceeds(u, c)

\* a file-count test that already fires at the ceiling
OverCountInclusive(n) == n >= MAX_FILES_IN_ZIP

\* line 131
OverCount(n) == n > MAX_FILES_IN_ZIP

\* a size test against half the ceiling
OverSizeHalf(u) == 2 * u > MAX_UNCOMPRESSED_SIZE

\* line 139
OverSize(u) == u > MAX_UNCOMPRESSED_SIZE

\* the running totals of the loop after entry i (directories add nothing)
Sizes(entries) ==
  [ i \in 1..Len(entries) |-> IF entries[i].isDirectory THEN 0 ELSE entries[i].size ]

CompressedSizes(entries) ==
  [ i \in 1..Len(entries) |->
      IF entries[i].isDirectory THEN 0 ELSE entries[i].compressedSize ]

FileCountUpTo(entries, i) == Cardinality({ j \in 1..i : ~entries[j].isDirectory })

SizeUpTo(entries, i) == SumRange(Sizes(entries), 1, i)

\* the loop returns at the first file entry after which a running total is
\* over its ceiling, the file count being tested first; after the loop the
\* ratio of the totals is tested when totalCompressedSize > 0
validateZipSecurity(entries) ==
  LET over == { i \in 1..Len(entries) :
                  /\ ~entries[i].isDirectory
                  /\ \/ OverCount(FileCountUpTo(entries, i))
                     \/ OverSize(SizeUpTo(entries, i)) }
      first == CHOOSE i \in over : \A j \in over : i <= j
      totalUncompressedSize == Sum(Sizes(entries))
      totalCompressedSize == Sum(CompressedSizes(entries))
  IN  IF over # {}
      THEN IF OverCount(FileCountUpTo(entries, first))
           THEN [safe |-> FALSE, reason |-> TooManyReason]
           ELSE [safe |-> FALSE, reason |-> TooBigReason]
      ELSE IF SuspiciousRatio(totalUncompressedSize, totalCompressedSize)
      THEN [safe |-> FALSE,
            reason |-> RatioReason(totalUncompressedSize, totalCompressedSize)]
      ELSE [safe |-> TRUE, reason |-> ""]

(***************************************************************************)
(* Archives and uploaded files the model draws from                        *)
(***************************************************************************)
MaxLead == 1      \* plain entries in front of the nested archive of a top-level archive
MaxTrail == 1     \* plain entries behind it

F(name, size, csize) ==
  [ entryName |-> name, isDirectory |-> FALSE, size |-> size,
    compressedSize |-> csize, corrupt |-> FALSE, data |-> <<>> ]

D(name) ==
  [ entryName |-> name, isDirectory |-> TRUE, size |-> 0,
    compressedSize |-> 0, corrupt |-> FALSE, data |-> <<>> ]

\* an entry whose getData() throws (bad CRC, unsupported method)
Bad(name, size, csize) == [F(name, size, csize) EXCEPT !.corrupt = TRUE]

\* the size of an archive file: per entry a local header, a central header
\* and the compressed bytes, then the end record
StoredSize(entries) ==
  22 + Sum([ i \in 1..Len(entries) |-> 76 + entries[i].compressedSize ])

\* a nested archive, stored uncompressed
Z(name, entries) ==
  [ entryName |-> name, isDirectory |-> FALSE, size |-> StoredSize(entries),
    compressedSize |-> StoredSize(entries), corrupt |-> FALSE, data |-> entries ]

PlainEntries ==
  { F("a.txt", 2, 2), F("B.EXE", 5, 5), F("s.env", 9, 9), F("u.xyz", 3, 3),
    F("big.txt", 31457280, 1048576), F("e.txt", 0, 0),
    F("p.pdf", 400, 300), Bad("c.txt", 7, 7), F("z.txt", 41943040, 0) }

TrailEntries == { F("t.md", 4, 4), F("x.dll", 5, 5) }

InnerEntries ==
  { F("a.txt", 2, 2), F("b.exe", 5, 5), F("big.txt", 31457280, 1048576),
    F("huge.txt", 62914560, 1048576), F("bomb.txt", 2020, 2) }

\* the sequences over S of length at most n
RECURSIVE SeqsUpTo(_, _)
SeqsUpTo(S, n) ==
  IF n = 0 THEN { <<>> }
  ELSE LET shorter == SeqsUpTo(S, n - 1)
       IN  shorter \cup { Append(q, e) : q \in { r \in shorter : Len(r) = n - 1 }, e \in S }

\* n files: n - 1 of 524288 bytes compressed to 5242, and a last one
Many(n, lastSize, lastCompressed) ==
  [ i \in 1..n |-> IF i < n THEN F("f.txt", 524288, 5242)
                   ELSE F("l.txt", lastSize, lastCompressed) ]

\* archives around the three ceilings: 100 files of 50 MiB in all at ratio
\* exactly 100, and the same with one file, one byte or one compressed byte
\* more or less, with and without a directory entry
CeilingArchives ==
  { Many(n, s, c) \o d :
      n \in {MAX_FILES_IN_ZIP, MAX_FILES_IN_ZIP + 1},
      s \in {524288, 524289}, c \in {5330, 5329},
      d \in { <<>>, << D("d/") >> } }

\* what a third-level archive entry holds (never opened)
Level3Archives == { << F("deep.txt", 4, 4) >> }

\* a nested archive holds one plain entry, or a.txt and an archive
Level2Archives ==
  { << F("a.txt", 2, 2) >>, << F("b.exe", 5, 5) >> }
  \cup { << F("a.txt", 2, 2), Z("n3.zip", a) >> : a \in Level3Archives }
  \cup { Many(MAX_FILES_IN_ZIP + 1, 1, 1) }

Level1Archives ==
  { << e >> : e \in InnerEntries }
  \cup { << F("a.txt", 2, 2), Z("n2.zip", a) >> : a \in Level2Archives }

\* archives of plain entries: a corrupt entry between two sound ones, an
\* empty file, a code file and a document behind a text file, and one file
\* of 60 MiB
MixedArchives ==
  { << F("a.txt", 2, 2), Bad("c.txt", 7, 7), F("t.md", 4, 4) >>,
    << F("a.txt", 2, 2), F("e.txt", 0, 0), F("s.py", 6, 6), F("p.pdf", 400, 300) >>,
    << F("huge.txt", 62914560, 1048576) >> }

TopArchives ==
  { lead \o mid \o trail :
      lead \in SeqsUpTo(PlainEntries, MaxLead),
      mid \in { <<>> } \cup { << Z("n1.zip", a) >> : a \in Level1Archives },
      trail \in SeqsUpTo(TrailEntries, MaxTrail) }
  \cup CeilingArchives \cup MixedArchives

\* multer's storage.filename: a random id and the lowercased extension
StoredName(id, originalName) == id \o toLowerCase(extname(originalName))

UploadedFile(id, originalName, content, entries, corrupt) ==
  [ filePath |-> StoredName(id, originalName), originalName |-> originalName,
    content |-> content, entries |-> entries, corrupt |-> corrupt ]

Content(n) == IF n = 0 THEN <<>> ELSE << [src |-> "file", len |-> n] >>

ContentLengths == { 0, 11, MAX_EXTRACTED_TEXT_LENGTH - 10,
                    MAX_EXTRACTED_TEXT_LENGTH - 8, MAX_EXTRACTED_TEXT_LENGTH,
                    MAX_EXTRACTED_TEXT_LENGTH + 1 }

PlainNames == { "notes.txt", "script.py", "Report.PDF", "deck.pptx", "nb.ipynb" }

PlainFiles ==
  { UploadedFile("0af3", n, Content(k), <<>>, c) :
      n \in PlainNames, k \in ContentLengths, c \in BOOLEAN }

ZipFiles == { UploadedFile("77c1", "upload.zip", <<>>, a, FALSE) : a \in TopArchives }

Files == PlainFiles \cup ZipFiles

\* the uploads of two requests that run at the same time
ConcArchives ==
  { << F("a.txt", 2, 2), Z("n1.zip", << F("m.txt", 3, 3) >>) >>,
    << Z("n1.zip", << Z("n2.zip", << F("a.txt", 2, 2), Z("n3.zip", << F("deep.txt", 4, 4) >>) >>) >>) >>,
    << D("d/"), F("u.xyz", 3, 3), Z("n1.zip", << F("b.exe", 5, 5) >>) >> }

ConcFiles ==
  { UploadedFile("77c1", "upload.zip", <<>>, a, FALSE) : a \in ConcArchives }
  \cup { UploadedFile("0af3", "notes.txt", Content(11), <<>>, FALSE) }

AbsentFile == UploadedFile("", "", <<>>, <<>>, FALSE)

\* names that reach the upload filter: one per extension of the two lists,
\* some of them in capitals, and names without a usable extension
GateNames ==
  { "f" \o e : e \in ALLOWED_EXTENSIONS \cup BLOCKED_EXTENSIONS }
  \cup { "Report.PDF", "SETUP.EXE", "Data.Csv", "prod.ENV", "a.b.txt", "x.tar.gz",
         "u.xyz", "README", ".exe", ".txt", ".env", "a.", ".." }

\* a file as the request carries it, before multer has stored it
Received(originalName, content, entries) ==
  [ filePath |-> "", originalName |-> originalName,
    content |-> content, entries |-> entries, corrupt |-> FALSE ]

GateFiles ==
  { Received(n, Content(11), IF toLowerCase(extname(n)) = ".zip"
                             THEN << F("a.txt", 2, 2), F("dir/.bat", 5, 5) >>
                             ELSE <<>>) : n \in GateNames }
  \cup { Received("upload.zip", <<>>, a) : a \in ConcArchives }

\* crypto.randomBytes(16).toString('hex'), one value per request
RandomId(p) == IF p = 1 THEN "0af3" ELSE "77c1"

(***************************************************************************)
(* State                                                                   *)
(***************************************************************************)
Uploads == {1, 2}

NoFile == [writer |-> 0, data |-> <<>>]

VARIABLES
  file,       \* file[p]: the uploaded file of request p (name, content, entries)
  pstate,     \* "idle", "zip" (inside processZipFile), "returned", "failed"
  stack,      \* stack[p]: the active processZipFile calls of p, outermost first
  zres,       \* zres[p]: what the top-level processZipFile call returned or threw
  out,        \* out[p]: what processFile returned or threw
  tmp,        \* os.tmpdir(): millisecond stamp t |-> the file nested-<t>.zip
  now,        \* the last value that Date.now() returned
  budget,     \* history: totals of the archives p opened and accepted
  dataFrom,   \* history: the archives whose entries p called getData() on
  foreign,    \* history: p opened or unlinked a temp file another request wrote
  steps,      \* history: the steps that processFile has taken for request p
  owner,      \* owner[p]: the session (req.session.id) that request p belongs to
  resp,       \* resp[r]: the response that request r was answered with
  session,    \* session[s]: req.session.uploadedFiles of session s, fileId |-> entry
  disk,       \* the files below <tmpdir>/llm-uploads: directory, name, mtime
  clock,      \* Date.now() of the host, in milliseconds
  log,        \* history: log[s], the entries that requests of session s obtained
  ans,        \* ans[s]: the last answer to a list, delete or chat request of s
  asks,       \* the list, delete and chat requests made so far
  uploadCounts, \* the Map of rateLimitUpload: key |-> count and resetTime
  passes,     \* history: passes[s][t], the requests of s that passed at time t,
              \* for the times t of the last 60 minutes
  limited,    \* limited[s]: the last request of s was answered with 429
  tmpdir,     \* os.tmpdir() of the host
  dirs,       \* the session directories below <tmpdir>/llm-uploads
  sweep,      \* the cleanupOldFiles call under way, or the last one
  logout,     \* logout[s]: the cleanupSession call of the logout of session s
  stored,     \* the files that multer has written since the start
  arrays,     \* the message arrays on the heap: array id |-> its messages
  memData,    \* memData[r]: req.session.conversationMemoryData of request r,
              \* its messages as the id of an array
  chat,       \* chat[r]: /chat request r, its position and the
              \* ConversationMemory object it works on
  saved       \* saved[s]: the conversation memory of session s as stored

\* the sessions and what their requests were answered
sessVars == <<owner, resp, session, log, ans, asks>>

\* the state of the host around processFile
rateVars == <<uploadCounts, passes, limited>>

\* the cleanup service
storeVars == <<tmpdir, dirs, sweep, logout, stored>>

\* the conversation memory
chatVars == <<arrays, memData, chat, saved>>

hostVars == <<sessVars, disk, clock, rateVars, storeVars, chatVars>>

vars == <<file, pstate, stack, zres, out, tmp, now, budget, dataFrom, foreign,
          steps, hostVars>>

MaxClock == 1

Stamps == 0..MaxClock

NoResult ==
  [ status |-> "none", text |-> <<>>, filesProcessed |-> 0, warnings |-> <<>>,
    error |-> "" ]

Thrown(msg) == [NoResult EXCEPT !.status = "thrown", !.error = msg]

NoOut == [ok |-> FALSE, error |-> "", text |-> <<>>, metadata |-> <<>>]

\* two sessions (req.session.id)
Sessions == {"sA", "sB"}

\* the requests that are answered: the two uploads
Requests == Uploads

NoResponse == [status |-> 0, error |-> "", fileId |-> ""]

NoAnswer == [op |-> "", fileId |-> "", status |-> 0]

\* 60 * 60 * 1000
HOUR_MS == 3600000

\* parseInt(process.env.UPLOAD_RATE_LIMIT_PER_HOUR || '10', 10), the variable
\* not set
UPLOAD_RATE_LIMIT_PER_HOUR == 10

\* the values that Date.now() takes while the limiter is watched: the start,
\* two milliseconds on, the first millisecond after the first window, and a
\* time more than an hour after every window opened before it
Instants == {0, 2, HOUR_MS + 1, 2 * HOUR_MS + 3}

\* the /chat requests that are followed
ChatReqs == {1, 2}

\* the arrays of messages: the one that each session starts with, and the
\* one that the slice of a compression makes for each request
ArrayOf(r) == r

SliceOf(r) == 2 + r

ArrayIds == 1..4

\* a /chat request before its handler has run
NoChat ==
  [ pc |-> "new", session |-> "sA", messages |-> 0, summary |-> "",
    recentMessages |-> <<>>, compressed |-> "no", status |-> 0 ]

\* cleanup-service.js, lines 15-18, FILE_RETENTION_HOURS not set
UPLOAD_BASE_DIR == "/tmp/llm-uploads"

FILE_RETENTION_MS == 1 * 60 * 60 * 1000

\* no cleanupOldFiles call has run yet
NoSweep ==
  [ pc |-> "idle", now |-> 0, sessionDirs |-> <<>>, si |-> 1,
    files |-> <<>>, fi |-> 1, sessionHasFiles |-> FALSE ]

\* no logout of the session yet
NoLogout == [pc |-> "idle", files |-> <<>>, fi |-> 1]

\* uploadCounts.get(sessionId) of a key that the Map does not hold
NoCount == [count |-> 0, resetTime |-> -1]

\* multer's storage.destination and storage.filename: the path of the upload
\* of request p, and the file that multer writes there
PathOf(p) == [dir |-> owner[p], name |-> file[p].filePath]

DiskFile(dir, name, mtime) == [dir |-> dir, name |-> name, mtime |-> mtime]

(***************************************************************************)
(* processZipFile, one call frame                                          *)
(***************************************************************************)
NewFrame(entries, level) ==
  [ entries |-> entries, i |-> 1, nestingLevel |-> level,
    combinedText |-> <<>>, filesProcessed |-> 0, warnings |-> <<>>,
    tempPath |-> 0, pc |-> "walk" ]

Top(p) == stack[p][Len(stack[p])]

Entry(f) == f.entries[f.i]

SetTop(st, f) == [st EXCEPT ![Len(st)] = f]

\* a catch clause that also drops what the call has gathered so far
CatchDiscards(f, msg) ==
  [f EXCEPT !.warnings = Append(@, "Failed to process " \o Entry(f).entryName
                                      \o ": " \o msg),
            !.combinedText = <<>>, !.filesProcessed = 0,
            !.i = @ + 1, !.pc = "walk"]

\* a catch clause after which the loop takes up the same entry again
CatchRetries(f, msg) ==
  [f EXCEPT !.warnings = Append(@, "Failed to process " \o Entry(f).entryName
                                      \o ": " \o msg),
            !.pc = "walk"]

\* the catch clause of the entry loop: a warning, then the next entry
Catch(f, msg) ==
  [f EXCEPT !.warnings = Append(@, "Failed to process " \o Entry(f).entryName
                                      \o ": " \o msg),
            !.i = @ + 1, !.pc = "walk"]

\* totals over the non-directory entries
SumSize(entries) == Sum(Sizes(entries))

SumCompressed(entries) == Sum(CompressedSizes(entries))

FileCount(entries) == FileCountUpTo(entries, Len(entries))

Charge(b, entries) ==
  [ totalUncompressedBytes |-> b.totalUncompressedBytes + SumSize(entries),
    fileCount |-> b.fileCount + FileCount(entries) ]

\* a splice that puts the new section in front of the text gathered so far
SpliceInFront(combinedText, section) == section \o combinedText

\* combinedText += section
Splice(combinedText, section) == combinedText \o section

\* processZipEntry: the text of a regular entry
processZipEntry(entry) ==
  IF toLowerCase(extname(entry.entryName)) \in textExtensions
  THEN IF entry.size = 0 THEN <<>>
       ELSE << [src |-> entry.entryName, len |-> entry.size] >>
  ELSE << Lit("[Binary file: " \o entry.entryName \o " - "
                 \o ToString(entry.size) \o " bytes]") >>

\* a length test that lets one character too many through
TooLongOffByOne(text) == TextLen(text) > MAX_EXTRACTED_TEXT_LENGTH + 1

\* line 126
TooLong(text) == TextLen(text) > MAX_EXTRACTED_TEXT_LENGTH

\* an extractedLength taken from the text before it was cut
LengthBeforeCut(text, cut) == TextLen(text)

\* line 132: text.length, after the cut of line 127
LengthReturned(text, cut) == TextLen(cut)

\* processFile, lines 125-134: truncation and metadata
Normalize(f, text, filesProcessed, warnings, isZip) ==
  LET long == TooLong(text)
      cut  == IF long THEN substring(text, MAX_EXTRACTED_TEXT_LENGTH) ELSE text
  IN  [ ok |-> TRUE, error |-> "", text |-> cut,
        metadata |->
          [ originalName |-> f.originalName,
            fileType |-> toLowerCase(extname(f.filePath)),
            filesProcessed |-> IF isZip THEN filesProcessed ELSE -1,
            warnings |-> warnings,
            truncated |-> IF long THEN "true" ELSE "undefined",
            originalLength |-> IF long THEN TextLen(cut) ELSE -1,
            extractedLength |-> LengthReturned(text, cut) ] ]

\* processFile, lines 136-139: every error is rethrown with a prefix
Failed(msg) ==
  [ ok |-> FALSE, error |-> "Failed to process file: " \o msg,
    text |-> <<>>, metadata |-> <<>> ]

(***************************************************************************)
(* processFile                                                             *)
(***************************************************************************)
processTextFile(f) == f.content

\* three backticks (written with apostrophes: a TLA+ string holds no backtick)
Fence == "'''"

\* a fence whose label keeps the dot of the extension
processCodeFileWithDot(f) ==
  << Lit(Fence \o extname(f.filePath) \o "\n") >> \o f.content
    \o << Lit("\n" \o Fence) >>

processCodeFile(f) ==
  LET ext == extname(f.filePath)
  IN  << Lit(Fence \o SubSeq(ext, 2, Len(ext)) \o "\n") >> \o f.content
        \o << Lit("\n" \o Fence) >>

\* processPDF, processDOCX, processExcel, processJupyter: the text that the
\* converter finds in the bytes (taken to be as long as the bytes)
processDocument(f) ==
  [ i \in 1..Len(f.content) |->
      [src |-> "text(" \o f.content[i].src \o ")", len |-> f.content[i].len] ]

\* the switch of processFile for a file that is no archive: the text, or
\* the message of the error thrown
Dispatch(f) ==
  LET ext == toLowerCase(extname(f.filePath))
  IN  IF ext \in PlainTextCases
        THEN [ok |-> TRUE, text |-> processTextFile(f), error |-> ""]
      ELSE IF ext \in CodeCases
        THEN [ok |-> TRUE, text |-> processCodeFile(f), error |-> ""]
      ELSE IF ext \in ConverterCases
        THEN IF f.corrupt
             THEN [ok |-> FALSE, text |-> <<>>, error |-> "corrupt " \o ext \o " file"]
             ELSE [ok |-> TRUE, text |-> processDocument(f), error |-> ""]
      ELSE [ok |-> FALSE, text |-> <<>>, error |-> "Unsupported file type: " \o ext]

\* an open that walks the entries whatever the static check says
AcceptsUnchecked(entries) == TRUE

\* lines 44-47: the outcome of the static check of a freshly opened archive
Accepts(entries) == validateZipSecurity(entries).safe

\* processFile on a file that is no archive: one step, no shared state
ProcessPlain(p) ==
  LET f   == file[p]
      ext == toLowerCase(extname(f.filePath))
  IN  /\ pstate[p] = "idle"
      /\ ext # ".zip"
      /\ out' = [out EXCEPT ![p] =
           IF Dispatch(f).ok
           THEN Normalize(f, Dispatch(f).text, 0, <<>>, FALSE)
           ELSE Failed(Dispatch(f).error)]
      /\ pstate' = [pstate EXCEPT ![p] = IF out'[p].ok THEN "returned" ELSE "failed"]
      /\ UNCHANGED <<file, stack, zres, tmp, now, budget, dataFrom, foreign>>
      /\ steps' = [steps EXCEPT ![p] = @ + 1]
      /\ UNCHANGED hostVars

\* processFile on a .zip: the top-level processZipFile(filePath) call up to
\* its entry loop (lines 35-51)
OpenTop(p) ==
  LET f == file[p]
      v == validateZipSecurity(f.entries)
  IN  /\ pstate[p] = "idle"
      /\ toLowerCase(extname(f.filePath)) = ".zip"
      /\ IF Accepts(f.entries)
         THEN /\ stack' = [stack EXCEPT ![p] = << NewFrame(f.entries, 0) >>]
              /\ pstate' = [pstate EXCEPT ![p] = "zip"]
              /\ budget' = [budget EXCEPT ![p] = Charge(@, f.entries)]
              /\ UNCHANGED <<zres, out>>
         ELSE /\ zres' = [zres EXCEPT ![p] = Thrown(v.reason)]
              /\ out' = [out EXCEPT ![p] = Failed(v.reason)]
              /\ pstate' = [pstate EXCEPT ![p] = "failed"]
              /\ UNCHANGED <<stack, budget>>
      /\ UNCHANGED <<file, tmp, now, dataFrom, foreign>>
      /\ steps' = [steps EXCEPT ![p] = @ + 1]
      /\ UNCHANGED hostVars

(***************************************************************************)
(* processZipFile: the entry loop, one entry (or one await) per step       *)
(***************************************************************************)
\* an error leaves the active call: the caller's catch turns it into a
\* warning, or, from the top-level call, processFile rethrows it
Throw(p, msg) ==
  IF Len(stack[p]) = 1
  THEN /\ stack' = [stack EXCEPT ![p] = <<>>]
       /\ zres' = [zres EXCEPT ![p] = Thrown(msg)]
       /\ out' = [out EXCEPT ![p] = Failed(msg)]
       /\ pstate' = [pstate EXCEPT ![p] = "failed"]
  ELSE LET rest == SubSeq(stack[p], 1, Len(stack[p]) - 1)
       IN  /\ stack' = [stack EXCEPT ![p] = SetTop(rest, Catch(rest[Len(rest)], msg))]
           /\ UNCHANGED <<zres, out, pstate>>

Walking(p) ==
  /\ pstate[p] = "zip"
  /\ Top(p).pc = "walk"
  /\ Top(p).i <= Len(Top(p).entries)

\* line 55
SkipDirectory(p) ==
  /\ Walking(p)
  /\ Entry(Top(p)).isDirectory
  /\ stack' = [stack EXCEPT ![p] = SetTop(@, [Top(p) EXCEPT !.i = @ + 1])]
  /\ UNCHANGED <<file, pstate, zres, out, tmp, now, budget, dataFrom, foreign>>
  /\ steps' = [steps EXCEPT ![p] = @ + 1]
  /\ UNCHANGED hostVars

\* a deny-list test that forgets to lowercase the extension
IsDangerousCaseSensitive(filename) == extname(filename) \in DANGEROUS_EXTENSIONS

\* lines 58 and 61
IsDangerous(filename) == toLowerCase(extname(filename)) \in DANGEROUS_EXTENSIONS

\* lines 60-63
RejectDangerous(p) ==
  /\ Walking(p)
  /\ ~Entry(Top(p)).isDirectory
  /\ IsDangerous(Entry(Top(p)).entryName)
  /\ Throw(p, "ZIP contains dangerous file type: " \o Entry(Top(p)).entryName)
  /\ UNCHANGED <<file, tmp, now, budget, dataFrom, foreign>>
  /\ steps' = [steps EXCEPT ![p] = @ + 1]
  /\ UNCHANGED hostVars

Eligible(p) ==
  /\ Walking(p)
  /\ ~Entry(Top(p)).isDirectory
  /\ ~IsDangerous(Entry(Top(p)).entryName)

\* lines 65-69
SkipUnsupported(p) ==
  /\ Eligible(p)
  /\ ~isAllowedExtension(Entry(Top(p)).entryName)
  /\ stack' = [stack EXCEPT ![p] = SetTop(@,
       [Top(p) EXCEPT !.warnings = Append(@, "Skipped unsupported file: "
                                               \o Entry(Top(p)).entryName),
                      !.i = @ + 1])]
  /\ UNCHANGED <<file, pstate, zres, out, tmp, now, budget, dataFrom, foreign>>
  /\ steps' = [steps EXCEPT ![p] = @ + 1]
  /\ UNCHANGED hostVars

IsZipEntry(e) == toLowerCase(extname(e.entryName)) = ".zip"

\* lines 94-101
ProcessEntry(p) ==
  LET f == Top(p)
      e == Entry(f)
      content == processZipEntry(e)
  IN  /\ Eligible(p)
      /\ isAllowedExtension(e.entryName)
      /\ ~IsZipEntry(e)
      /\ dataFrom' = [dataFrom EXCEPT ![p] = @ \cup {f.entries}]
      /\ stack' = [stack EXCEPT ![p] = SetTop(@,
           IF e.corrupt THEN Catch(f, "Invalid or unsupported zip format")
           ELSE IF IsEmptyText(content) THEN [f EXCEPT !.i = @ + 1]
           ELSE [f EXCEPT
                   !.combinedText =
                      Splice(@, << Lit("\n--- File: " \o e.entryName \o " ---\n") >>
                                  \o content \o << Lit("\n") >>),
                   !.filesProcessed = @ + 1,
                   !.i = @ + 1])]
      /\ UNCHANGED <<file, pstate, zres, out, tmp, now, budget, foreign>>
      /\ steps' = [steps EXCEPT ![p] = @ + 1]
      /\ UNCHANGED hostVars

\* a depth test that lets one more level through
TooDeepStrict(nestingLevel) == nestingLevel > MAX_NESTING_DEPTH

\* line 74
TooDeep(nestingLevel) == nestingLevel >= MAX_NESTING_DEPTH

\* lines 73-77
SkipTooDeep(p) ==
  /\ Eligible(p)
  /\ isAllowedExtension(Entry(Top(p)).entryName)
  /\ IsZipEntry(Entry(Top(p)))
  /\ TooDeep(Top(p).nestingLevel)
  /\ stack' = [stack EXCEPT ![p] = SetTop(@,
       [Top(p) EXCEPT !.warnings = Append(@, "Skipped nested ZIP (too deep): "
                                               \o Entry(Top(p)).entryName),
                      !.i = @ + 1])]
  /\ UNCHANGED <<file, pstate, zres, out, tmp, now, budget, dataFrom, foreign>>
  /\ steps' = [steps EXCEPT ![p] = @ + 1]
  /\ UNCHANGED hostVars

\* lines 81-82: the temp name from Date.now(), then await import
StageNested(p) ==
  /\ Eligible(p)
  /\ isAllowedExtension(Entry(Top(p)).entryName)
  /\ IsZipEntry(Entry(Top(p)))
  /\ ~TooDeep(Top(p).nestingLevel)
  /\ \E t \in Stamps :
       /\ t \in {now, now + 1}
       /\ now' = t
       /\ stack' = [stack EXCEPT ![p] = SetTop(@,
            [Top(p) EXCEPT !.tempPath = t, !.pc = "staged"])]
  /\ UNCHANGED <<file, pstate, zres, out, tmp, budget, dataFrom, foreign>>
  /\ steps' = [steps EXCEPT ![p] = @ + 1]
  /\ UNCHANGED hostVars

\* line 83: entry.getData() and fs.writeFile
WriteNested(p) ==
  LET f == Top(p)
      e == Entry(f)
  IN  /\ pstate[p] = "zip"
      /\ f.pc = "staged"
      /\ dataFrom' = [dataFrom EXCEPT ![p] = @ \cup {f.entries}]
      /\ IF e.corrupt
         THEN /\ stack' = [stack EXCEPT ![p] =
                   SetTop(@, Catch(f, "Invalid or unsupported zip format"))]
              /\ tmp' = tmp
         ELSE /\ tmp' = [tmp EXCEPT ![f.tempPath] = [writer |-> p, data |-> e.data]]
              /\ stack' = [stack EXCEPT ![p] = SetTop(@, [f EXCEPT !.pc = "written"])]
      /\ UNCHANGED <<file, pstate, zres, out, now, budget, foreign>>
      /\ steps' = [steps EXCEPT ![p] = @ + 1]
      /\ UNCHANGED hostVars

\* line 85: the nested processZipFile(tempPath, nestingLevel + 1) up to its
\* entry loop (lines 35-51)
OpenNested(p) ==
  LET f  == Top(p)
      fl == tmp[f.tempPath]
      v  == validateZipSecurity(fl.data)
  IN  /\ pstate[p] = "zip"
      /\ f.pc = "written"
      /\ IF f.nestingLevel + 1 > MAX_NESTING_DEPTH
         THEN /\ stack' = [stack EXCEPT ![p] = SetTop(@,
                   Catch(f, "ZIP nesting too deep (max "
                              \o ToString(MAX_NESTING_DEPTH) \o " levels)"))]
              /\ UNCHANGED <<budget, foreign>>
         ELSE IF fl.writer = 0
         THEN /\ stack' = [stack EXCEPT ![p] =
                   SetTop(@, Catch(f, "ADM-ZIP: Invalid filename"))]
              /\ UNCHANGED <<budget, foreign>>
         ELSE /\ foreign' = [foreign EXCEPT ![p] = @ \/ fl.writer # p]
              /\ IF Accepts(fl.data)
                 THEN /\ stack' = [stack EXCEPT ![p] =
                           Append(SetTop(@, [f EXCEPT !.pc = "await"]),
                                  NewFrame(fl.data, f.nestingLevel + 1))]
                      /\ budget' = [budget EXCEPT ![p] = Charge(@, fl.data)]
                 ELSE /\ stack' = [stack EXCEPT ![p] = SetTop(@, Catch(f, v.reason))]
                      /\ budget' = budget
      /\ UNCHANGED <<file, pstate, zres, out, tmp, now, dataFrom>>
      /\ steps' = [steps EXCEPT ![p] = @ + 1]
      /\ UNCHANGED hostVars

\* lines 108-112 of a nested call, then lines 86-89 of its caller
ReturnNested(p) ==
  LET f      == Top(p)
      rest   == SubSeq(stack[p], 1, Len(stack[p]) - 1)
      caller == rest[Len(rest)]
  IN  /\ pstate[p] = "zip"
      /\ f.pc = "walk"
      /\ f.i > Len(f.entries)
      /\ Len(stack[p]) > 1
      /\ stack' = [stack EXCEPT ![p] = SetTop(rest,
           [caller EXCEPT
              !.combinedText =
                 Splice(@, << Lit("\n--- Nested ZIP: "
                                    \o Entry(caller).entryName \o " ---\n") >>
                             \o f.combinedText),
              !.filesProcessed = @ + f.filesProcessed,
              !.warnings = @ \o f.warnings,
              !.pc = "unlink"])]
      /\ UNCHANGED <<file, pstate, zres, out, tmp, now, budget, dataFrom, foreign>>
      /\ steps' = [steps EXCEPT ![p] = @ + 1]
      /\ UNCHANGED hostVars

\* line 92: fs.unlink(tempPath)
UnlinkNested(p) ==
  LET f  == Top(p)
      fl == tmp[f.tempPath]
  IN  /\ pstate[p] = "zip"
      /\ f.pc = "unlink"
      /\ IF fl.writer = 0
         THEN /\ stack' = [stack EXCEPT ![p] = SetTop(@,
                   Catch(f, "ENOENT: no such file or directory, unlink"))]
              /\ UNCHANGED <<tmp, foreign>>
         ELSE /\ tmp' = [tmp EXCEPT ![f.tempPath] = NoFile]
              /\ foreign' = [foreign EXCEPT ![p] = @ \/ fl.writer # p]
              /\ stack' = [stack EXCEPT ![p] = SetTop(@,
                   [f EXCEPT !.i = @ + 1, !.pc = "walk"])]
      /\ UNCHANGED <<file, pstate, zres, out, now, budget, dataFrom>>
      /\ steps' = [steps EXCEPT ![p] = @ + 1]
      /\ UNCHANGED hostVars

\* lines 108-112 of the top-level call, then processFile lines 116-134
ReturnTop(p) ==
  LET f == Top(p)
  IN  /\ pstate[p] = "zip"
      /\ f.pc = "walk"
      /\ f.i > Len(f.entries)
      /\ Len(stack[p]) = 1
      /\ zres' = [zres EXCEPT ![p] =
           [ status |-> "returned", text |-> f.combinedText,
             filesProcessed |-> f.filesProcessed, warnings |-> f.warnings,
             error |-> "" ]]
      /\ out' = [out EXCEPT ![p] =
           Normalize(file[p], f.combinedText, f.filesProcessed, f.warnings, TRUE)]
      /\ pstate' = [pstate EXCEPT ![p] = "returned"]
      /\ stack' = [stack EXCEPT ![p] = <<>>]
      /\ UNCHANGED <<file, tmp, now, budget, dataFrom, foreign>>
      /\ steps' = [steps EXCEPT ![p] = @ + 1]
      /\ UNCHANGED hostVars

\* upload.single('file'): fileFilter, then storage.filename for an accepted
\* file; a refused file never reaches processFile
UploadSingle(p) ==
  LET f == file[p]
      v == fileFilter(f.originalName)
  IN  /\ pstate[p] = "received"
      /\ IF v.accepted
         THEN /\ file' = [file EXCEPT ![p].filePath = StoredName(RandomId(p), f.originalName)]
              /\ pstate' = [pstate EXCEPT ![p] = "idle"]
              /\ disk' = disk \cup { DiskFile(owner[p], StoredName(RandomId(p), f.originalName), clock) }
              /\ dirs' = dirs \cup { owner[p] }
              /\ stored' = stored + 1
              /\ out' = out
         ELSE /\ out' = [out EXCEPT ![p].error = v.error]
              /\ pstate' = [pstate EXCEPT ![p] = "refused"]
              /\ UNCHANGED <<file, disk, dirs, stored>>
      /\ UNCHANGED <<stack, zres, tmp, now, budget, dataFrom, foreign>>
      /\ UNCHANGED <<steps, sessVars, clock, rateVars, tmpdir, sweep, logout, chatVars>>

Next ==
  \E p \in Uploads :
    \/ ProcessPlain(p)
    \/ OpenTop(p)
    \/ SkipDirectory(p)
    \/ RejectDangerous(p)
    \/ SkipUnsupported(p)
    \/ ProcessEntry(p)
    \/ SkipTooDeep(p)
    \/ StageNested(p)
    \/ WriteNested(p)
    \/ OpenNested(p)
    \/ ReturnNested(p)
    \/ UnlinkNested(p)
    \/ ReturnTop(p)

TypeInit ==
  /\ stack = [p \in Uploads |-> <<>>]
  /\ zres = [p \in Uploads |-> NoResult]
  /\ out = [p \in Uploads |-> NoOut]
  /\ tmp = [t \in Stamps |-> NoFile]
  /\ now = 0
  /\ budget = [p \in Uploads |-> [totalUncompressedBytes |-> 0, fileCount |-> 0]]
  /\ dataFrom = [p \in Uploads |-> {}]
  /\ foreign = [p \in Uploads |-> FALSE]
  /\ steps = [p \in Uploads |-> 0]

\* no conversation yet and no /chat request
ChatIdle ==
  /\ arrays = [a \in ArrayIds |-> <<>>]
  /\ memData = [r \in ChatReqs |-> [messages |-> ArrayOf(r), summary |-> ""]]
  /\ saved = [s \in Sessions |-> [messages |-> <<>>, summary |-> ""]]
  /\ chat = [r \in ChatReqs |-> [NoChat EXCEPT !.pc = "absent"]]

\* no request answered, nothing uploaded in any session
HostQuiet ==
  /\ resp = [r \in Requests |-> NoResponse]
  /\ session = [s \in Sessions |-> <<>>]
  /\ clock = 0
  /\ disk = { DiskFile(owner[p], file[p].filePath, 0) :
                p \in { q \in Uploads : pstate[q] = "idle" } }
  /\ log = [s \in Sessions |-> {}]
  /\ ans = [s \in Sessions |-> NoAnswer]
  /\ asks = 0
  /\ uploadCounts = [s \in Sessions |-> NoCount]
  /\ passes = [s \in Sessions |-> [t \in Instants |-> 0]]
  /\ limited = [s \in Sessions |-> FALSE]
  /\ dirs = { owner[p] : p \in { q \in Uploads : pstate[q] = "idle" } }
  /\ sweep = NoSweep
  /\ logout = [s \in Sessions |-> NoLogout]
  /\ stored = Cardinality(disk)

HostInit == HostQuiet /\ ChatIdle

\* one upload, processed alone
Init ==
  /\ \E f \in Files : file = [p \in Uploads |-> IF p = 1 THEN f ELSE AbsentFile]
  /\ pstate = [p \in Uploads |-> IF p = 1 THEN "idle" ELSE "absent"]
  /\ owner = [p \in Uploads |-> "sA"]
  /\ tmpdir = "/tmp"
  /\ TypeInit
  /\ HostInit

\* two uploads, processed at the same time
InitConc ==
  /\ file \in [Uploads -> ConcFiles]
  /\ pstate = [p \in Uploads |-> "idle"]
  /\ owner = [p \in Uploads |-> "sA"]
  /\ tmpdir = "/tmp"
  /\ TypeInit
  /\ HostInit

Spec == Init /\ [][Next]_vars

SpecConc == InitConc /\ [][Next]_vars

(***************************************************************************)
(* server.js: the handlers of the upload, list, delete and chat routes      *)
(***************************************************************************)
coreVars == <<file, pstate, stack, zres, out, tmp, now, budget, dataFrom, foreign, steps>>

\* lines 486-495: the entry that the upload handler stores in the session
SessionEntry(p) ==
  [ id |-> file[p].filePath, originalName |-> file[p].originalName,
    path |-> PathOf(p), text |-> out[p].text, metadata |-> out[p].metadata ]

\* an assignment that leaves the new entry alone in the session
StoreAlone(files, e) == [ k \in {e.id} |-> e ]

\* req.session.uploadedFiles[fileId] = entry
Store(files, e) ==
  [ k \in DOMAIN files \cup {e.id} |-> IF k = e.id THEN e ELSE files[k] ]

\* delete files[fileId]
Remove(files, fileId) == [ k \in DOMAIN files \ {fileId} |-> files[k] ]

\* a lookup that finds the uploads of every session
FilesOfAll(s) ==
  [ k \in UNION { DOMAIN session[t] : t \in Sessions } |->
      session[CHOOSE t \in Sessions : k \in DOMAIN session[t]][k] ]

\* lines 513, 527, 581: req.session.uploadedFiles || {}, the uploads of the
\* session that the request belongs to
FilesOf(s) == session[s]

\* POST /api/upload, lines 472-509: the answer to upload request p, after
\* processFile has returned or thrown, or at once without a file
Answer(p) ==
  /\ pstate[p] \in {"returned", "failed", "nofile"}
  /\ resp[p] = NoResponse
  /\ IF pstate[p] = "nofile"
     THEN /\ resp' = [resp EXCEPT ![p] =
               [status |-> 400, error |-> "No file uploaded", fileId |-> ""]]
          /\ session' = session
     ELSE IF out[p].ok
     THEN /\ session' = [session EXCEPT ![owner[p]] = Store(@, SessionEntry(p))]
          /\ resp' = [resp EXCEPT ![p] =
               [status |-> 200, error |-> "", fileId |-> file[p].filePath]]
     ELSE /\ resp' = [resp EXCEPT ![p] =
               [status |-> 500, error |-> out[p].error, fileId |-> ""]]
          /\ session' = session
  /\ UNCHANGED <<coreVars, owner, log, ans, asks, disk, clock, rateVars, storeVars, chatVars>>

\* the list, delete and chat requests that a check lets the sessions make
MaxAsk == 2

\* the fileIds that a request can carry: the stored names and an unknown one
FileIds == { StoredName(RandomId(p), n) : p \in Uploads, n \in {"notes.txt", "script.py"} }
           \cup { "ffff.txt" }

\* GET /api/files, lines 512-521
List(s) ==
  /\ asks < MaxAsk
  /\ asks' = asks + 1
  /\ log' = [log EXCEPT ![s] =
       @ \cup { [op |-> "list", entry |-> FilesOf(s)[k]] : k \in DOMAIN FilesOf(s) }]
  /\ ans' = [ans EXCEPT ![s] = [op |-> "list", fileId |-> "", status |-> 200]]
  /\ UNCHANGED <<coreVars, owner, resp, session, disk, clock, rateVars, storeVars, chatVars>>

\* DELETE /api/files/:fileId, lines 524-545
Delete(s, fileId) ==
  LET files == FilesOf(s)
  IN  /\ asks < MaxAsk
      /\ asks' = asks + 1
      /\ IF fileId \notin DOMAIN files
         THEN /\ ans' = [ans EXCEPT ![s] = [op |-> "delete", fileId |-> fileId, status |-> 404]]
              /\ UNCHANGED <<session, disk, log>>
         ELSE IF \A d \in disk : <<d.dir, d.name>> # <<files[fileId].path.dir, files[fileId].path.name>>
         THEN /\ ans' = [ans EXCEPT ![s] = [op |-> "delete", fileId |-> fileId, status |-> 500]]
              /\ UNCHANGED <<session, disk, log>>
         ELSE /\ disk' = { d \in disk :
                   <<d.dir, d.name>> # <<files[fileId].path.dir, files[fileId].path.name>> }
              /\ session' = [session EXCEPT ![s] = Remove(@, fileId)]
              /\ log' = [log EXCEPT ![s] = @ \cup { [op |-> "delete", entry |-> files[fileId]] }]
              /\ ans' = [ans EXCEPT ![s] = [op |-> "delete", fileId |-> fileId, status |-> 200]]
      /\ UNCHANGED <<coreVars, owner, resp, clock, rateVars, storeVars, chatVars>>

\* POST /chat, lines 578-591: the prompt takes in the text of the file
Chat(s, fileId) ==
  LET files == FilesOf(s)
  IN  /\ asks < MaxAsk
      /\ asks' = asks + 1
      /\ IF fileId \in DOMAIN files
         THEN log' = [log EXCEPT ![s] = @ \cup { [op |-> "chat", entry |-> files[fileId]] }]
         ELSE log' = log
      /\ ans' = [ans EXCEPT ![s] =
           [op |-> "chat", fileId |-> fileId,
            status |-> IF fileId \in DOMAIN files THEN 200 ELSE 404]]
      /\ UNCHANGED <<coreVars, owner, resp, session, disk, clock, rateVars, storeVars, chatVars>>

\* the uploads that the handlers are checked on: one of each way to fail, a
\* text file and two archives that are processed
ServerFiles ==
  { UploadedFile("0af3", "notes.txt", Content(11), <<>>, FALSE),
    UploadedFile("0af3", "deck.pptx", Content(11), <<>>, FALSE),
    UploadedFile("0af3", "Report.PDF", Content(11), <<>>, TRUE),
    UploadedFile("77c1", "upload.zip", <<>>, << F("a.txt", 2, 2), F("B.EXE", 5, 5) >>, FALSE),
    UploadedFile("77c1", "upload.zip", <<>>, Many(MAX_FILES_IN_ZIP + 1, 1, 1), FALSE),
    UploadedFile("77c1", "upload.zip", <<>>, << F("a.txt", 2, 2), Bad("c.txt", 7, 7) >>, FALSE),
    UploadedFile("77c1", "upload.zip", <<>>,
      << D("d/"), F("u.xyz", 3, 3),
         Z("n1.zip", << Z("n2.zip", << F("a.txt", 2, 2),
                                       Z("n3.zip", << F("deep.txt", 4, 4) >>) >>) >>) >>,
      FALSE) }

\* the file of request p under the random id of p
Renamed(f, p) == [f EXCEPT !.filePath = StoredName(RandomId(p), f.originalName)]

\* two upload requests, of one session or of two, one of them maybe without
\* a file
InitServer ==
  /\ \E f \in [Uploads -> ServerFiles] : file = [p \in Uploads |-> Renamed(f[p], p)]
  /\ pstate \in [Uploads -> {"idle", "nofile"}]
  /\ pstate[1] = "idle"
  /\ owner \in { [p \in Uploads |-> "sA"], [p \in Uploads |-> IF p = 1 THEN "sA" ELSE "sB"] }
  /\ tmpdir = "/tmp"
  /\ TypeInit
  /\ HostInit

NextServer == Next \/ \E p \in Uploads : Answer(p)

SpecServer == InitServer /\ [][NextServer]_vars

\* two text or code files, and the requests of the two sessions for them
AccessFiles ==
  { UploadedFile("0af3", "notes.txt", Content(11), <<>>, FALSE),
    UploadedFile("0af3", "script.py", Content(11), <<>>, FALSE) }

InitAccess ==
  /\ \E f \in [Uploads -> AccessFiles] : file = [p \in Uploads |-> Renamed(f[p], p)]
  /\ pstate = [p \in Uploads |-> "idle"]
  /\ owner \in { [p \in Uploads |-> "sA"], [p \in Uploads |-> IF p = 1 THEN "sA" ELSE "sB"] }
  /\ tmpdir = "/tmp"
  /\ TypeInit
  /\ HostInit

NextAccess ==
  \/ \E p \in Uploads : ProcessPlain(p) \/ Answer(p)
  \/ \E s \in Sessions : List(s)
  \/ \E s \in Sessions, fileId \in FileIds : Delete(s, fileId)
  \/ \E s \in Sessions, fileId \in FileIds : Chat(s, fileId)

SpecAccess == InitAccess /\ [][NextAccess]_vars

(***************************************************************************)
(* rateLimitUpload and the timer that empties its Map                       *)
(***************************************************************************)
\* a test that never finds the window of an entry over
WindowNeverOver(data, t) == data = NoCount

\* line 149: !data || data.resetTime < now
WindowOver(data, t) == data = NoCount \/ data.resetTime < t

\* lines 142-167: one upload request of session s reaches the limiter
RateLimitUpload(s) ==
  LET data == uploadCounts[s]
  IN  /\ IF WindowOver(data, clock)
         THEN /\ uploadCounts' = [uploadCounts EXCEPT ![s] =
                   [count |-> 1, resetTime |-> clock + HOUR_MS]]
              /\ passes' = [passes EXCEPT ![s][clock] = @ + 1]
              /\ limited' = [limited EXCEPT ![s] = FALSE]
         ELSE IF data.count >= UPLOAD_RATE_LIMIT_PER_HOUR
         THEN /\ limited' = [limited EXCEPT ![s] = TRUE]
              /\ UNCHANGED <<uploadCounts, passes>>
         ELSE /\ uploadCounts' = [uploadCounts EXCEPT ![s].count = @ + 1]
              /\ passes' = [passes EXCEPT ![s][clock] = @ + 1]
              /\ limited' = [limited EXCEPT ![s] = FALSE]
      /\ UNCHANGED <<coreVars, sessVars, disk, clock, storeVars, chatVars>>

\* lines 129-136: the hourly timer drops the entries whose window closed more
\* than an hour ago
Purge ==
  /\ \E s \in Sessions : uploadCounts[s] # NoCount /\ uploadCounts[s].resetTime < clock - HOUR_MS
  /\ uploadCounts' = [s \in Sessions |->
       IF uploadCounts[s].resetTime < clock - HOUR_MS THEN NoCount ELSE uploadCounts[s]]
  /\ UNCHANGED <<coreVars, sessVars, disk, clock, passes, limited, storeVars, chatVars>>

\* time passes
Tick ==
  /\ \E t \in Instants :
       /\ t > clock
       /\ clock' = t
       /\ passes' = [s \in Sessions |-> [u \in Instants |->
            IF u > t - HOUR_MS THEN passes[s][u] ELSE 0]]
  /\ UNCHANGED <<coreVars, sessVars, disk, uploadCounts, limited, storeVars, chatVars>>

\* no upload under way: the limiter stands before multer
InitRate ==
  /\ file = [p \in Uploads |-> AbsentFile]
  /\ pstate = [p \in Uploads |-> "absent"]
  /\ owner = [p \in Uploads |-> "sA"]
  /\ tmpdir = "/tmp"
  /\ TypeInit
  /\ HostInit

NextRate == (\E s \in Sessions : RateLimitUpload(s)) \/ Purge \/ Tick

SpecRate == InitRate /\ [][NextRate]_vars

(***************************************************************************)
(* cleanup-service.js: the sweep of old files and the cleanup at logout     *)
(***************************************************************************)
\* the directory that multer writes the uploads below (part_005, line 70)
UploadRoot == tmpdir \o "/llm-uploads"

\* what a call of the cleanup service finds below UPLOAD_BASE_DIR
SeenDirs == IF UploadRoot = UPLOAD_BASE_DIR THEN dirs ELSE {}

SeenFiles == IF UploadRoot = UPLOAD_BASE_DIR THEN disk ELSE {}

\* fs.readdir lists the names in order
SessionsInOrder == << "sA", "sB" >>

StoreNames == << "0af3.txt", "77c1.zip", "9be2.pdf" >>

InSeq(q, S) == SelectSeq(q, LAMBDA x : x \in S)

\* fs.readdir(sessionPath)
ReadDir(s) == InSeq(StoreNames, { d.name : d \in { e \in SeenFiles : e.dir = s } })

\* the uploads that multer writes while the cleanup service is watched
MaxStored == 2

\* multer stores the file of an upload request of session s (part_005, 66-91)
StoreFile(s, name) ==
  /\ stored < MaxStored
  /\ logout[s].pc # "done"
  /\ \A d \in disk : <<d.dir, d.name>> # <<s, name>>
  /\ disk' = disk \cup { DiskFile(s, name, clock) }
  /\ dirs' = dirs \cup {s}
  /\ stored' = stored + 1
  /\ UNCHANGED <<coreVars, sessVars, clock, rateVars, tmpdir, sweep, logout, chatVars>>

\* lines 88-89: age > FILE_RETENTION_MS
IsOld(now_, mtime) == now_ - mtime > FILE_RETENTION_MS

\* lines 55-70: the timer fires; Date.now(), fs.access and the readdir of the
\* base directory
SweepStart ==
  /\ sweep.pc \in {"idle", "done", "aborted"}
  /\ sweep' = [NoSweep EXCEPT !.now = clock,
                              !.pc = IF UploadRoot = UPLOAD_BASE_DIR /\ dirs # {}
                                     THEN "session" ELSE "done",
                              !.sessionDirs = InSeq(SessionsInOrder, SeenDirs)]
  /\ UNCHANGED <<coreVars, sessVars, disk, clock, rateVars, tmpdir, dirs, logout, stored, chatVars>>

\* lines 72-82: the next session directory, its stat and its readdir; an
\* error ends the sweep in the catch of line 113
SweepSession ==
  /\ sweep.pc = "session"
  /\ IF sweep.si > Len(sweep.sessionDirs)
     THEN sweep' = [sweep EXCEPT !.pc = "done"]
     ELSE IF sweep.sessionDirs[sweep.si] \notin SeenDirs
     THEN sweep' = [sweep EXCEPT !.pc = "aborted"]
     ELSE sweep' = [sweep EXCEPT !.pc = "file", !.fi = 1, !.sessionHasFiles = FALSE,
                                 !.files = ReadDir(sweep.sessionDirs[sweep.si])]
  /\ UNCHANGED <<coreVars, sessVars, disk, clock, rateVars, tmpdir, dirs, logout, stored, chatVars>>

\* lines 84-97: the stat of one listed file and the unlink of an old one
SweepFile ==
  LET s    == sweep.sessionDirs[sweep.si]
      name == sweep.files[sweep.fi]
      here == { d \in SeenFiles : d.dir = s /\ d.name = name }
  IN  /\ sweep.pc = "file"
      /\ sweep.fi <= Len(sweep.files)
      /\ IF here = {}
         THEN /\ sweep' = [sweep EXCEPT !.pc = "aborted"]
              /\ disk' = disk
         ELSE IF \E d \in here : IsOld(sweep.now, d.mtime)
         THEN /\ disk' = disk \ here
              /\ sweep' = [sweep EXCEPT !.fi = @ + 1]
         ELSE /\ sweep' = [sweep EXCEPT !.fi = @ + 1, !.sessionHasFiles = TRUE]
              /\ disk' = disk
      /\ UNCHANGED <<coreVars, sessVars, clock, rateVars, tmpdir, dirs, logout, stored, chatVars>>

\* lines 99-107: a session directory without a young file is listed again
\* and removed when it is empty
SweepRmdir ==
  LET s == sweep.sessionDirs[sweep.si]
  IN  /\ sweep.pc = "file"
      /\ sweep.fi > Len(sweep.files)
      /\ IF ~sweep.sessionHasFiles /\ s \notin SeenDirs
         THEN /\ sweep' = [sweep EXCEPT !.pc = "aborted"]
              /\ dirs' = dirs
         ELSE IF ~sweep.sessionHasFiles /\ ReadDir(s) = <<>>
         THEN /\ dirs' = dirs \ {s}
              /\ sweep' = [sweep EXCEPT !.pc = "session", !.si = @ + 1]
         ELSE /\ sweep' = [sweep EXCEPT !.pc = "session", !.si = @ + 1]
              /\ dirs' = dirs
      /\ UNCHANGED <<coreVars, sessVars, disk, clock, rateVars, tmpdir, logout, stored, chatVars>>

\* GET /logout (server.js 352-362) calls cleanupSession (lines 121-136):
\* fs.access of the session directory and its readdir
LogoutStart(s) ==
  /\ logout[s].pc = "idle"
  /\ logout' = [logout EXCEPT ![s] =
       IF s \in SeenDirs
       THEN [pc |-> "files", files |-> ReadDir(s), fi |-> 1]
       ELSE [NoLogout EXCEPT !.pc = "done"]]
  /\ UNCHANGED <<coreVars, sessVars, disk, clock, rateVars, tmpdir, dirs, sweep, stored, chatVars>>

\* lines 137-140: the unlink of one listed file; an error ends the call in
\* the catch of line 147
LogoutFile(s) ==
  LET l    == logout[s]
      here == { d \in SeenFiles : d.dir = s /\ d.name = l.files[l.fi] }
  IN  /\ l.pc = "files"
      /\ l.fi <= Len(l.files)
      /\ IF here = {}
         THEN /\ logout' = [logout EXCEPT ![s].pc = "done"]
              /\ disk' = disk
         ELSE /\ disk' = disk \ here
              /\ logout' = [logout EXCEPT ![s].fi = @ + 1]
      /\ UNCHANGED <<coreVars, sessVars, clock, rateVars, tmpdir, dirs, sweep, stored, chatVars>>

\* lines 142-149 and server.js 360: fs.rmdir, which fails on a directory that
\* is not empty or not there, and then req.session.destroy()
LogoutEnd(s) ==
  LET l == logout[s]
  IN  /\ l.pc = "files"
      /\ l.fi > Len(l.files)
      /\ dirs' = IF ReadDir(s) = <<>> THEN dirs \ {s} ELSE dirs
      /\ logout' = [logout EXCEPT ![s].pc = "done"]
      /\ UNCHANGED <<coreVars, sessVars, disk, clock, rateVars, tmpdir, sweep, stored, chatVars>>

\* the host: os.tmpdir() is /tmp, or another directory (TMPDIR, macOS)
InitStore ==
  /\ file = [p \in Uploads |-> AbsentFile]
  /\ pstate = [p \in Uploads |-> "absent"]
  /\ owner = [p \in Uploads |-> "sA"]
  /\ tmpdir \in {"/tmp", "/var/tmp"}
  /\ TypeInit
  /\ HostInit

NextStore ==
  \/ \E s \in Sessions, i \in 1..Len(StoreNames) : StoreFile(s, StoreNames[i])
  \/ Tick
  \/ SweepStart
  \/ SweepSession
  \/ SweepFile
  \/ SweepRmdir
  \/ \E s \in Sessions : LogoutStart(s) \/ LogoutFile(s) \/ LogoutEnd(s)

SpecStore == InitStore /\ [][NextStore]_vars

(***************************************************************************)
(* the session registry beside the cleanup sweep                            *)
(***************************************************************************)
\* a text file and a file that no converter takes
KeptFiles ==
  { UploadedFile("0af3", "notes.txt", Content(11), <<>>, FALSE),
    UploadedFile("0af3", "deck.pptx", Content(11), <<>>, FALSE) }

\* two stored uploads of one session or of two, on a host whose os.tmpdir()
\* is /tmp
InitKeep ==
  /\ \E f \in [Uploads -> KeptFiles] : file = [p \in Uploads |-> Renamed(f[p], p)]
  /\ pstate = [p \in Uploads |-> "idle"]
  /\ owner \in { [p \in Uploads |-> "sA"], [p \in Uploads |-> IF p = 1 THEN "sA" ELSE "sB"] }
  /\ tmpdir = "/tmp"
  /\ TypeInit
  /\ HostInit

\* uploads are processed and answered, sessions ask to delete files, time
\* passes and the sweep runs
NextKeep ==
  \/ \E p \in Uploads : ProcessPlain(p) \/ Answer(p)
  \/ \E s \in Sessions, fileId \in FileIds : Delete(s, fileId)
  \/ Tick
  \/ SweepStart
  \/ SweepSession
  \/ SweepFile
  \/ SweepRmdir

SpecKeep == InitKeep /\ [][NextKeep]_vars

(***************************************************************************)
(* server.js: ConversationMemory and the /chat handler                      *)
(***************************************************************************)
\* lines 76-98 for a text of letters only, given by its length: a token per
\* four characters, a tenth more, rounded up, and at least one
estimateTokens(length) ==
  IF length = 0 THEN 0
  ELSE LET t == (11 * length + 39) \div 40 IN IF t < 1 THEN 1 ELSE t

\* lines 103-112
estimateMessagesTokens(messages) ==
  Sum([ i \in 1..Len(messages) |->
          estimateTokens(Len(messages[i].role))
            + estimateTokens(messages[i].content.length) + 4 ])

\* line 596, no model of that key found
modelContextWindow == 128 * 1024

\* getConversationMemory, lines 280-283
compressionThreshold == 6

keepRecentCount == 10

\* Math.floor(modelContextWindow * this.compressionThreshold)
thresholdTokens == (modelContextWindow * compressionThreshold) \div 10

\* a test that compresses whenever the tokens are over the threshold
NeedsCompressionByTokens(messages) ==
  estimateMessagesTokens(messages) > thresholdTokens

\* line 143
NeedsCompression(messages) ==
  estimateMessagesTokens(messages) > thresholdTokens /\ Len(messages) > keepRecentCount

\* a slice that keeps one message fewer
sliceLastButOne(messages, n) ==
  IF Len(messages) <= n - 1 THEN messages
  ELSE SubSeq(messages, Len(messages) - n + 2, Len(messages))

\* messages.slice(-n)
sliceLast(messages, n) ==
  IF Len(messages) <= n THEN messages
  ELSE SubSeq(messages, Len(messages) - n + 1, Len(messages))

Message(role, id, length) == [role |-> role, content |-> [id |-> id, length |-> length]]

\* the proxy of lines 290-312 after a method call of the memory c of request
\* r: the session object of the request takes the messages and the summary
\* of that memory
SaveBack(data, r, c) ==
  [data EXCEPT ![r] = [messages |-> c.messages, summary |-> c.summary]]

\* the lengths of the prompts: a short one, and a long one with a file in it
PromptLengths == {8, 120000}

\* line 195: the summary of the model, or the words that stand for an empty one
Summaries == {"They spoke of files.", "Previous conversation context."}

\* lines 198-202
Combined(summary, newSummary) ==
  IF summary # "" THEN summary \o "\n\n" \o newSummary ELSE newSummary

\* lines 548-594: the request is found valid; its session object is a copy
\* of the stored session, getConversationMemory builds a memory on the
\* array and the summary of that object, and the prompt is added to it
ChatAdd(r) ==
  LET c == chat[r]
      d == saved[c.session]
      m == [c EXCEPT !.messages = ArrayOf(r), !.summary = d.summary, !.pc = "added"]
  IN  /\ c.pc = "new"
      /\ \E length \in PromptLengths :
           arrays' = [arrays EXCEPT ![ArrayOf(r)] =
                        Append(d.messages, Message("user", 100 + r, length))]
      /\ chat' = [chat EXCEPT ![r] = m]
      /\ memData' = SaveBack(memData, r, m)
      /\ UNCHANGED <<coreVars, sessVars, disk, clock, rateVars, storeVars, saved>>

\* lines 613 and 137-186: getMessagesForModel, and compress up to the fetch
\* of the summary
ChatCheck(r) ==
  LET c    == chat[r]
      msgs == arrays[c.messages]
      m    == IF NeedsCompression(msgs)
              THEN [c EXCEPT !.pc = "summarising",
                             !.recentMessages = sliceLast(msgs, keepRecentCount)]
              ELSE [c EXCEPT !.pc = "call"]
  IN  /\ c.pc = "added"
      /\ chat' = [chat EXCEPT ![r] = m]
      /\ memData' = SaveBack(memData, r, m)
      /\ UNCHANGED <<coreVars, sessVars, disk, clock, rateVars, storeVars, arrays, saved>>

\* lines 186-226: the fetch of the summary has come back or has failed; the
\* memory goes on with the recent messages alone, and the proxy saves it
ChatSummarised(r) ==
  LET c == chat[r]
  IN  /\ c.pc = "summarising"
      /\ \/ \E newSummary \in Summaries :
              LET m == [c EXCEPT !.pc = "call", !.messages = SliceOf(r),
                                 !.summary = Combined(@, newSummary),
                                 !.compressed = "summary"]
              IN  /\ chat' = [chat EXCEPT ![r] = m]
                  /\ memData' = SaveBack(memData, r, m)
         \/ LET m == [c EXCEPT !.pc = "call", !.messages = SliceOf(r),
                               !.compressed = "truncated"]
            IN  /\ chat' = [chat EXCEPT ![r] = m]
                /\ memData' = SaveBack(memData, r, m)
      /\ arrays' = [arrays EXCEPT ![SliceOf(r)] = c.recentMessages]
      /\ UNCHANGED <<coreVars, sessVars, disk, clock, rateVars, storeVars, saved>>

\* the session of the request is stored when its response ends
SaveSession(r, heap, data) ==
  [saved EXCEPT ![chat[r].session] =
     [messages |-> heap[data[r].messages], summary |-> data[r].summary]]

\* lines 665-711: the fetch of the model has come back; an answer is added to
\* the memory, an error is answered with status 500
ChatAnswered(r) ==
  LET c == chat[r]
  IN  /\ c.pc = "call"
      /\ \/ /\ arrays' = [arrays EXCEPT ![c.messages] =
                            Append(@, Message("assistant", 200 + r, 8))]
            /\ chat' = [chat EXCEPT ![r].pc = "done", ![r].status = 200]
            /\ memData' = SaveBack(memData, r, c)
         \/ /\ chat' = [chat EXCEPT ![r].pc = "done", ![r].status = 500]
            /\ UNCHANGED <<arrays, memData>>
      /\ saved' = SaveSession(r, arrays', memData')
      /\ UNCHANGED <<coreVars, sessVars, disk, clock, rateVars, storeVars>>

\* a conversation of n messages, every second one an answer, the questions
\* of the given length
Conversation(n, length) ==
  [ i \in 1..n |-> IF i % 2 = 1 THEN Message("user", i, length)
                                 ELSE Message("assistant", i, 8) ]

\* the sessions hold the conversations of earlier requests, with or without
\* a summary; two /chat requests arrive, of one session or of two
InitChat ==
  /\ file = [p \in Uploads |-> AbsentFile]
  /\ pstate = [p \in Uploads |-> "absent"]
  /\ owner = [p \in Uploads |-> "sA"]
  /\ tmpdir = "/tmp"
  /\ TypeInit
  /\ HostQuiet
  /\ arrays = [a \in ArrayIds |-> <<>>]
  /\ memData = [r \in ChatReqs |-> [messages |-> ArrayOf(r), summary |-> ""]]
  /\ \E n \in {0, 10}, length \in PromptLengths, earlier \in {"", "They met."} :
       saved = [s \in Sessions |->
                  IF s = "sA" THEN [messages |-> Conversation(n, length), summary |-> earlier]
                  ELSE [messages |-> <<>>, summary |-> ""]]
  /\ \E second \in Sessions :
       chat = [r \in ChatReqs |-> [NoChat EXCEPT !.session = IF r = 1 THEN "sA" ELSE second]]

NextChat ==
  \E r \in ChatReqs : ChatAdd(r) \/ ChatCheck(r) \/ ChatSummarised(r) \/ ChatAnswered(r)

SpecChat == InitChat /\ [][NextChat]_vars

\* one request from the upload filter on
InitGate ==
  /\ \E f \in GateFiles : file = [p \in Uploads |-> IF p = 1 THEN f ELSE AbsentFile]
  /\ pstate = [p \in Uploads |-> IF p = 1 THEN "received" ELSE "absent"]
  /\ owner = [p \in Uploads |-> "sA"]
  /\ tmpdir = "/tmp"
  /\ TypeInit
  /\ HostInit

NextGate == (\E p \in Uploads : UploadSingle(p)) \/ Next

SpecGate == InitGate /\ [][NextGate]_vars

(***************************************************************************)
(* Properties                                                              *)
(***************************************************************************)
IsZipUpload(p) == toLowerCase(extname(file[p].filePath)) = ".zip"

Files_(entries) == { i \in 1..Len(entries) : ~entries[i].isDirectory }

ExtOf(e) == toLowerCase(extname(e.entryName))

Range(q) == { q[i] : i \in 1..Len(q) }

HasExtensionIn(entries, exts) ==
  \E i \in Files_(entries) : ExtOf(entries[i]) \in exts

Finished(p) == pstate[p] \in {"returned", "failed"}

\* C1: an archive with an entry of an executable extension is never answered
\* with a result: the top-level processZipFile call throws, and neither it
\* nor processFile hands back any text, wherever the entry stands.
C1_PoisonRejectsArchive ==
  \A p \in Uploads :
    IsZipUpload(p) /\ HasExtensionIn(file[p].entries, DANGEROUS_EXTENSIONS)
      => /\ zres[p].status # "returned"
         /\ zres[p].text = <<>>
         /\ ~out[p].ok /\ out[p].text = <<>>
         /\ Finished(p) => zres[p].status = "thrown" /\ pstate[p] = "failed"

\* a valid entry and a nested archive were processed, then x.dll rejected all
C1_Witness ==
  \E p \in Uploads :
    /\ Len(file[p].entries) = 3
    /\ file[p].entries[1].entryName = "a.txt"
    /\ dataFrom[p] # {}
    /\ zres[p].status = "thrown"
    /\ zres[p].error = "ZIP contains dangerous file type: x.dll"

\* a structural violation of an archive: the static check fails or an entry
\* is an executable
Violates(entries) ==
  ~validateZipSecurity(entries).safe
    \/ HasExtensionIn(entries, DANGEROUS_EXTENSIONS)

\* an archive at nesting level 1 or 2 below entries violates
RECURSIVE NestedViolation(_, _)
NestedViolation(entries, level) ==
  \E i \in Files_(entries) :
    /\ ExtOf(entries[i]) = ".zip"
    /\ level < MAX_NESTING_DEPTH
    /\ \/ Violates(entries[i].data)
       \/ NestedViolation(entries[i].data, level + 1)

\* C2: a structural violation inside a nested archive rejects the whole
\* upload: the top-level processZipFile call never returns a result.
C2_NestedViolationRejects ==
  \A p \in Uploads :
    IsZipUpload(p) /\ NestedViolation(file[p].entries, 0)
      => zres[p].status # "returned"

\* C3: the uncompressed bytes and the file entries accumulated over the
\* top-level archive and the nested archives it opened stay within
\* MAX_UNCOMPRESSED_SIZE and MAX_FILES_IN_ZIP.
C3_BudgetWithinCeilings ==
  \A p \in Uploads :
    /\ budget[p].totalUncompressedBytes <= MAX_UNCOMPRESSED_SIZE
    /\ budget[p].fileCount <= MAX_FILES_IN_ZIP

\* the verdict stated on the totals over the non-directory entries
ExceedsCeilings(entries) ==
  \/ FileCount(entries) > 100
  \/ SumSize(entries) > 52428800
  \/ SumCompressed(entries) > 0 /\ SumSize(entries) > 100 * SumCompressed(entries)

\* the entries that are not directories, in their order: the k-th of them
\* stands at the index that has k - 1 files before it
WithoutDirectories(entries) ==
  LET keep == Files_(entries)
      before(i) == Cardinality({ j \in keep : j < i })
  IN  [ k \in 1..Cardinality(keep) |->
          entries[CHOOSE i \in keep : before(i) = k - 1] ]

\* C4: validateZipSecurity reports an archive unsafe exactly when its file
\* count is over 100, its total uncompressed size over 50 MiB, or its ratio
\* over 100 with a positive compressed total; directory entries do not count,
\* and an unsafe top-level archive fails the upload.
C4_UnsafeIffOverCeiling ==
  \A p \in Uploads :
    IsZipUpload(p) /\ pstate[p] # "idle"
      => /\ validateZipSecurity(file[p].entries).safe
              = ~ExceedsCeilings(file[p].entries)
         /\ validateZipSecurity(WithoutDirectories(file[p].entries))
              = validateZipSecurity(file[p].entries)
         /\ ExceedsCeilings(file[p].entries) => zres[p].status = "thrown"
         /\ zres[p].error \in {TooManyReason, TooBigReason}
              => ExceedsCeilings(file[p].entries)

\* 100 files, 50 MiB, ratio 100 and a directory entry: accepted and walked
C4_Witness ==
  \E p \in Uploads :
    /\ pstate[p] = "returned"
    /\ IsZipUpload(p)
    /\ Len(file[p].entries) = 101
    /\ FileCount(file[p].entries) = 100
    /\ SumSize(file[p].entries) = 52428800
    /\ SumSize(file[p].entries) = 100 * SumCompressed(file[p].entries)

\* C5: every text that processFile returns has at most
\* MAX_EXTRACTED_TEXT_LENGTH characters.
C5_ReturnedTextBounded ==
  \A p \in Uploads :
    pstate[p] = "returned" => TextLen(out[p].text) <= 50000

\* an archive with a nested archive whose text was cut to the limit
C5_Witness ==
  \E p \in Uploads :
    /\ pstate[p] = "returned"
    /\ IsZipUpload(p)
    /\ budget[p].fileCount > FileCount(file[p].entries)
    /\ TextLen(zres[p].text) > 50000
    /\ TextLen(out[p].text) = 50000

\* C6 as stated: every extension on the upload filter's deny-list, .env
\* included, rejects the whole archive.
C6_DenyListAborts ==
  \A p \in Uploads :
    IsZipUpload(p) /\ HasExtensionIn(file[p].entries, BLOCKED_EXTENSIONS)
      => zres[p].status # "returned"

\* C6 amended: the extensions that reject the whole archive are the deny-list
\* without .env; an archive with such an entry is never answered with a
\* result, while every .env entry of a returned archive was skipped with a
\* warning.
C6_ExecutablesAbortEnvSkipped ==
  /\ DANGEROUS_EXTENSIONS = BLOCKED_EXTENSIONS \ {".env"}
  /\ \A p \in Uploads :
       IsZipUpload(p) =>
         /\ HasExtensionIn(file[p].entries, BLOCKED_EXTENSIONS \ {".env"})
              => zres[p].status # "returned" /\ (Finished(p) => pstate[p] = "failed")
         /\ zres[p].status = "returned" =>
              \A i \in Files_(file[p].entries) :
                ExtOf(file[p].entries[i]) = ".env" =>
                  ("Skipped unsupported file: " \o file[p].entries[i].entryName)
                     \in Range(zres[p].warnings)

\* s.env was skipped with a warning and the entry behind it processed
C6_Witness ==
  \E p \in Uploads :
    /\ zres[p].status = "returned"
    /\ Len(file[p].entries) = 2
    /\ file[p].entries[1].entryName = "s.env"
    /\ zres[p].warnings = << "Skipped unsupported file: s.env" >>
    /\ zres[p].filesProcessed = 1

\* the uploaded archive holds n1.zip, which holds a.txt and n2.zip, which
\* holds a.txt and n3.zip, which holds deep.txt
DeepChain ==
  Z("n1.zip", << F("a.txt", 2, 2),
                 Z("n2.zip", << F("a.txt", 2, 2),
                                Z("n3.zip", << F("deep.txt", 4, 4) >>) >>) >>)

HasChain(p) ==
  IsZipUpload(p) /\ \E i \in 1..Len(file[p].entries) : file[p].entries[i] = DeepChain

NestedHeader(name) == Lit("\n--- Nested ZIP: " \o name \o " ---\n")

FileSection(name, size) ==
  << Lit("\n--- File: " \o name \o " ---\n"), [src |-> name, len |-> size], Lit("\n") >>

ContainsRun(text, run) ==
  \E k \in 0..(Len(text) - Len(run)) : SubSeq(text, k + 1, k + Len(run)) = run

IsFileHeader(chunk) ==
  Len(chunk.src) >= 11 /\ SubSeq(chunk.src, 1, 11) = "\n--- File: "

\* C7 as stated: counting the uploaded archive as level 1, the level-3
\* archive n2.zip is skipped with a warning and adds no text.
C7_ThirdLevelSkipped ==
  \A p \in Uploads :
    HasChain(p) /\ zres[p].status = "returned"
      => /\ "Skipped nested ZIP (too deep): n2.zip" \in Range(zres[p].warnings)
         /\ NestedHeader("n2.zip") \notin Range(zres[p].text)

\* C7 amended: counting the uploaded archive as level 1, it is the level-4
\* archive n3.zip that is skipped with a warning and adds no text and no
\* processed file, the entries of levels 1 to 3 are processed, and the
\* upload is not rejected.
C7_FourthLevelSkipped ==
  \A p \in Uploads :
    HasChain(p) =>
      /\ zres[p].status = "returned" =>
           /\ "Skipped nested ZIP (too deep): n3.zip" \in Range(zres[p].warnings)
           /\ NestedHeader("n3.zip") \notin Range(zres[p].text)
           /\ \A i \in 1..Len(zres[p].text) :
                zres[p].text[i].src # "deep.txt" /\ zres[p].text[i] # Lit("\n--- File: deep.txt ---\n")
           /\ ContainsRun(zres[p].text,
                << NestedHeader("n1.zip") >> \o FileSection("a.txt", 2)
                  \o << NestedHeader("n2.zip") >> \o FileSection("a.txt", 2))
           /\ zres[p].filesProcessed
                = Cardinality({ i \in 1..Len(zres[p].text) : IsFileHeader(zres[p].text[i]) })
           /\ zres[p].filesProcessed >= 2
      /\ ~Violates(file[p].entries) => zres[p].status # "thrown"

\* the chain was walked behind a processed entry and the call returned
C7_Witness ==
  \E p \in Uploads :
    /\ HasChain(p)
    /\ zres[p].status = "returned"
    /\ zres[p].filesProcessed = 4

\* C8: an upload neither opens nor deletes a staged file of another upload.
C8_NoSharedState == \A p \in Uploads : ~foreign[p]

AllZeroCompressed(entries) ==
  \A i \in Files_(entries) : entries[i].compressedSize = 0

\* C9: an archive whose file entries all report compressedSize 0 passes the
\* static check whenever it has at most 100 files and at most 50 MiB, and the
\* upload is then rejected for an executable entry only.
C9_ZeroCompressedPasses ==
  \A p \in Uploads :
    /\ IsZipUpload(p) /\ pstate[p] # "idle"
    /\ AllZeroCompressed(file[p].entries)
    /\ FileCount(file[p].entries) <= 100
    /\ SumSize(file[p].entries) <= 52428800
    => /\ validateZipSecurity(file[p].entries).safe
       /\ zres[p].status = "thrown"
            => HasExtensionIn(file[p].entries, DANGEROUS_EXTENSIONS)

\* 40 MiB reported as compressed to nothing: accepted and extracted
C9_Witness ==
  \E p \in Uploads :
    /\ pstate[p] = "returned"
    /\ IsZipUpload(p)
    /\ FileCount(file[p].entries) >= 1
    /\ AllZeroCompressed(file[p].entries)
    /\ SumSize(file[p].entries) = 41943040
    /\ zres[p].filesProcessed = 1

\* C10: getData() is only ever called on entries of an archive that
\* validateZipSecurity accepts.
C10_ValidatedBeforeData ==
  \A p \in Uploads : \A a \in dataFrom[p] : validateZipSecurity(a).safe

\* bytes were taken from the uploaded archive and from a nested one
C10_Witness ==
  \E p \in Uploads :
    /\ file[p].entries \in dataFrom[p]
    /\ \E a \in dataFrom[p] : a # file[p].entries

\* the frame of the active processZipFile call of p after the step, when the
\* call is still active
TopAfter(p) == stack'[p][Len(stack[p])]

\* C11: a step on an entry whose extension is neither on the deny-list nor on
\* the allow-list records exactly one warning for it, adds no text and no
\* processed file, moves on to the next entry and rejects nothing.
C11_UnsupportedSkipped ==
  [][ \A p \in Uploads :
        ( /\ Walking(p)
          /\ ~Entry(Top(p)).isDirectory
          /\ ExtOf(Entry(Top(p))) \notin (ALLOWED_EXTENSIONS \cup BLOCKED_EXTENSIONS)
          /\ stack'[p] # stack[p] )
        => /\ Len(stack'[p]) = Len(stack[p])
           /\ TopAfter(p).warnings
                = Append(Top(p).warnings,
                         "Skipped unsupported file: " \o Entry(Top(p)).entryName)
           /\ TopAfter(p).combinedText = Top(p).combinedText
           /\ TopAfter(p).filesProcessed = Top(p).filesProcessed
           /\ TopAfter(p).i = Top(p).i + 1
           /\ TopAfter(p).pc = "walk"
           /\ pstate'[p] = "zip"
           /\ zres'[p] = NoResult
    ]_vars

\* u.xyz was skipped with one warning and the entry behind it processed
C11_Witness ==
  \E p \in Uploads :
    /\ zres[p].status = "returned"
    /\ Len(file[p].entries) = 2
    /\ file[p].entries[1].entryName = "u.xyz"
    /\ zres[p].warnings = << "Skipped unsupported file: u.xyz" >>
    /\ zres[p].text = FileSection("t.md", 4)
    /\ zres[p].filesProcessed = 1

StartsWith(s, prefix) ==
  Len(s) >= Len(prefix) /\ SubSeq(s, 1, Len(prefix)) = prefix

\* C12: a step on an allowed entry that is no archive and whose extraction
\* fails records one warning naming the entry, keeps the text and the count
\* gathered so far, moves on to the next entry and fails nothing.
C12_FailedEntryBecomesWarning ==
  [][ \A p \in Uploads :
        ( /\ Walking(p)
          /\ ~Entry(Top(p)).isDirectory
          /\ ExtOf(Entry(Top(p))) \in (ALLOWED_EXTENSIONS \ BLOCKED_EXTENSIONS) \ {".zip"}
          /\ Entry(Top(p)).corrupt
          /\ stack'[p] # stack[p] )
        => /\ Len(stack'[p]) = Len(stack[p])
           /\ Len(TopAfter(p).warnings) = Len(Top(p).warnings) + 1
           /\ SubSeq(TopAfter(p).warnings, 1, Len(Top(p).warnings)) = Top(p).warnings
           /\ StartsWith(TopAfter(p).warnings[Len(TopAfter(p).warnings)],
                         "Failed to process " \o Entry(Top(p)).entryName \o ": ")
           /\ TopAfter(p).combinedText = Top(p).combinedText
           /\ TopAfter(p).filesProcessed = Top(p).filesProcessed
           /\ TopAfter(p).i = Top(p).i + 1
           /\ TopAfter(p).pc = "walk"
           /\ pstate'[p] = "zip"
           /\ zres'[p] = NoResult
    ]_vars

\* a.txt was processed, c.txt failed with a warning, t.md was processed and
\* the call returned both sections
C12_Witness ==
  \E p \in Uploads :
    /\ zres[p].status = "returned"
    /\ Len(file[p].entries) = 3
    /\ file[p].entries[2] = Bad("c.txt", 7, 7)
    /\ Len(zres[p].warnings) = 1
    /\ StartsWith(zres[p].warnings[1], "Failed to process c.txt: ")
    /\ zres[p].text = FileSection("a.txt", 2) \o FileSection("t.md", 4)
    /\ zres[p].filesProcessed = 2

\* parts[lo] \o ... \o parts[hi], by halving
RECURSIVE Flatten(_, _, _)
Flatten(parts, lo, hi) ==
  IF lo > hi THEN <<>>
  ELSE IF lo = hi THEN parts[lo]
  ELSE LET mid == (lo + hi) \div 2
       IN  Flatten(parts, lo, mid) \o Flatten(parts, mid + 1, hi)

\* the section of one entry of an archive walked at the given nesting level:
\* nothing for an entry that is skipped or fails, a File section for a
\* regular entry with text, a Nested header and the sections of the nested
\* archive for an archive entry that is opened and walked to its end
RECURSIVE SectionOf(_, _)
SectionOf(e, level) ==
  IF e.isDirectory \/ e.corrupt
       \/ ExtOf(e) \notin (ALLOWED_EXTENSIONS \ BLOCKED_EXTENSIONS) THEN <<>>
  ELSE IF ExtOf(e) = ".zip"
  THEN IF level >= 2 \/ Violates(e.data) THEN <<>>
       ELSE << NestedHeader(e.entryName) >>
              \o Flatten([ i \in 1..Len(e.data) |-> SectionOf(e.data[i], level + 1) ],
                         1, Len(e.data))
  ELSE IF IsEmptyText(processZipEntry(e)) THEN <<>>
  ELSE << Lit("\n--- File: " \o e.entryName \o " ---\n") >>
         \o processZipEntry(e) \o << Lit("\n") >>

\* the sections of the entries of an archive, in enumeration order
SectionsInOrder(entries) ==
  Flatten([ i \in 1..Len(entries) |-> SectionOf(entries[i], 0) ], 1, Len(entries))

\* C13: the combined text that the top-level call returns is the sections of
\* its entries one after the other in enumeration order, each section whole
\* (a nested section with all sections of the nested archive), so the section
\* of an entry stands entirely before the section of every later entry.
C13_SectionsInEnumerationOrder ==
  \A p \in Uploads :
    zres[p].status = "returned" => zres[p].text = SectionsInOrder(file[p].entries)

\* a.txt, then n1.zip with a.txt and n2.zip with a.txt, then t.md
C13_Witness ==
  \E p \in Uploads :
    /\ zres[p].status = "returned"
    /\ Len(file[p].entries) = 3
    /\ zres[p].text =
         FileSection("a.txt", 2)
           \o << NestedHeader("n1.zip") >> \o FileSection("a.txt", 2)
           \o << NestedHeader("n2.zip") >> \o FileSection("a.txt", 2)
           \o FileSection("t.md", 4)

\* the allowed entries that are no archives and whose extraction succeeds,
\* over an archive walked at the given nesting level and the nested archives
\* that are opened and walked to their end
RECURSIVE Extracted(_, _)
Extracted(entries, level) ==
  Sum([ i \in 1..Len(entries) |->
          LET e == entries[i]
          IN  IF e.isDirectory \/ e.corrupt
                   \/ ExtOf(e) \notin (ALLOWED_EXTENSIONS \ BLOCKED_EXTENSIONS) THEN 0
              ELSE IF ExtOf(e) = ".zip"
              THEN IF level >= 2 \/ Violates(e.data) THEN 0
                   ELSE Extracted(e.data, level + 1)
              ELSE 1 ])

FileHeaders(text) ==
  Cardinality({ i \in 1..Len(text) : IsFileHeader(text[i]) })

\* C14: the filesProcessed that the top-level call returns, and the number of
\* File sections of its text, equal the number of allowed non-archive entries
\* extracted without error over the uploaded archive and the nested archives
\* that were expanded, entries with empty text included.
C14_EverySuccessCounted ==
  \A p \in Uploads :
    zres[p].status = "returned"
      => /\ zres[p].filesProcessed = Extracted(file[p].entries, 0)
         /\ FileHeaders(zres[p].text) = Extracted(file[p].entries, 0)

\* the bytes of an entry, stored as a file of their own under the entry's name
AsUpload(e) ==
  UploadedFile("5d20", e.entryName, << [src |-> e.entryName, len |-> e.size] >>,
               <<>>, FALSE)

\* the entries of the uploaded archive that get a File section
Spliced(entries) ==
  { i \in Files_(entries) :
      /\ ExtOf(entries[i]) \in (ALLOWED_EXTENSIONS \ BLOCKED_EXTENSIONS) \ {".zip"}
      /\ ~entries[i].corrupt
      /\ entries[i].size > 0 }

\* C15: the body of the File section of an entry is the text that processFile
\* extracts from the same bytes uploaded alone under the same extension,
\* whenever processFile extracts one.
C15_EntryTextIsExtractorText ==
  \A p \in Uploads :
    zres[p].status = "returned" =>
      \A i \in Spliced(file[p].entries) :
        LET e == file[p].entries[i]
        IN  Dispatch(AsUpload(e)).ok =>
              ContainsRun(zres[p].text,
                << Lit("\n--- File: " \o e.entryName \o " ---\n") >>
                  \o Dispatch(AsUpload(e)).text \o << Lit("\n") >>)

\* C16: processFile, which only ever gets a file that the upload filter has
\* accepted, finds a case for its extension in its switch and never fails
\* with 'Unsupported file type'.
C16_AllowedHasConverter ==
  \A p \in Uploads :
    Finished(p) =>
      LET ext == toLowerCase(extname(file[p].filePath))
      IN  /\ fileFilter(file[p].originalName).accepted
          /\ ext \in PlainTextCases \cup CodeCases \cup ConverterCases \cup {".zip"}
          /\ out[p].error # "Failed to process file: Unsupported file type: " \o ext

\* the upload filter has given its verdict on the file of request p
Filtered(p) == pstate[p] \notin {"absent", "received"}

\* C17: the two lists are disjoint, and a file whose extension is on the
\* deny-list is refused for security reasons by the upload filter and is not
\* allowed by isAllowedExtension; both verdicts stay the same when the
\* extension is put on the allow-list as well.
C17_DenyListFirst ==
  /\ ALLOWED_EXTENSIONS \cap BLOCKED_EXTENSIONS = {}
  /\ \A p \in Uploads :
       LET ext == toLowerCase(extname(file[p].originalName))
       IN  Filtered(p) /\ ext \in BLOCKED_EXTENSIONS
             => /\ pstate[p] = "refused"
                /\ out[p].error = SecurityReason(ext)
                /\ ~isAllowedExtension(file[p].originalName)
                /\ ~fileFilterOver(ext, ALLOWED_EXTENSIONS \cup {ext},
                                   BLOCKED_EXTENSIONS).accepted
                /\ ~isAllowedOver(ext, ALLOWED_EXTENSIONS \cup {ext},
                                  BLOCKED_EXTENSIONS)

\* prod.ENV was refused for security reasons
C17_Witness ==
  \E p \in Uploads :
    /\ pstate[p] = "refused"
    /\ file[p].originalName = "prod.ENV"
    /\ out[p].error = "File type .env is not allowed for security reasons"

\* the verdict that request p got, without its wording
VerdictOf(p) ==
  IF pstate[p] # "refused" THEN "allowed"
  ELSE IF out[p].error = SecurityReason(toLowerCase(extname(file[p].originalName)))
  THEN "security"
  ELSE "unsupported"

\* C18: the verdict on a name is the verdict on its lowercase suffix from the
\* last '.' on: a name without a '.' is refused as unsupported, a name that is
\* only a dot and a suffix gets the verdict of that suffix, and an archive
\* with an entry whose suffix is an executable one is never answered with a
\* result.
C18_ClassifiedBySuffix ==
  LET LowerSuffix(name) ==
        LET dot == LastIndexOf(name, ".")
        IN  IF dot = 0 THEN "" ELSE toLowerCase(SubSeq(name, dot, Len(name)))
      VerdictOn(suffix) ==
        IF suffix \in BLOCKED_EXTENSIONS THEN "security"
        ELSE IF suffix \in ALLOWED_EXTENSIONS THEN "allowed"
        ELSE "unsupported"
  IN  \A p \in Uploads :
        /\ Filtered(p) => VerdictOf(p) = VerdictOn(LowerSuffix(file[p].originalName))
        /\ zres[p].status = "returned" =>
             \A i \in Files_(file[p].entries) :
               LowerSuffix(file[p].entries[i].entryName) \notin DANGEROUS_EXTENSIONS

\* the text that processFile had in hand before line 125
Untruncated(p) ==
  IF IsZipUpload(p) THEN zres[p].text ELSE Dispatch(file[p]).text

\* C19: when the extracted text is longer than MAX_EXTRACTED_TEXT_LENGTH,
\* processFile returns its first 50,000 characters, sets truncated to true
\* and records as originalLength the length the text had before the cut.
C19_PreTruncationLengthRecorded ==
  \A p \in Uploads :
    pstate[p] = "returned" /\ TextLen(Untruncated(p)) > 50000
      => /\ out[p].text = substring(Untruncated(p), 50000)
         /\ TextLen(out[p].text) = 50000
         /\ out[p].metadata.truncated = "true"
         /\ out[p].metadata.originalLength = TextLen(Untruncated(p))
         /\ out[p].metadata.originalLength > 50000

\* C20: in every result that processFile returns, extractedLength is the
\* length of the returned text, truncated or not.
C20_ExtractedLengthIsReturnedLength ==
  \A p \in Uploads :
    pstate[p] = "returned"
      => out[p].metadata.extractedLength = TextLen(out[p].text)

\* a text of 50,001 characters was returned cut to 50,000
C20_Witness ==
  \E p \in Uploads :
    /\ pstate[p] = "returned"
    /\ TextLen(Untruncated(p)) = 50001
    /\ out[p].metadata.truncated = "true"
    /\ out[p].metadata.extractedLength = 50000
    /\ TextLen(out[p].text) = 50000

\* C21: metadata.truncated of every result is a boolean, true exactly when
\* the extracted text was longer than 50,000 characters and false otherwise;
\* notes.txt with its 11 characters comes back whole with truncated false
\* and extractedLength 11.
C21_TruncatedIsBoolean ==
  \A p \in Uploads :
    pstate[p] = "returned"
      => /\ out[p].metadata.truncated \in {"true", "false"}
         /\ (out[p].metadata.truncated = "true") = (TextLen(Untruncated(p)) > 50000)
         /\ file[p].originalName = "notes.txt" /\ TextLen(file[p].content) = 11
              => /\ out[p].text = file[p].content
                 /\ out[p].metadata.truncated = "false"
                 /\ out[p].metadata.extractedLength = 11

\* C23: the reason of a rejection by the static check names a ceiling that
\* the archive exceeds: the file-count reason needs more than 100 file
\* entries, the size reason more than 50 MiB, the ratio reason a ratio over
\* 100; an archive of 60 MiB that exceeds nothing else is rejected with the
\* size reason and no text.
C23_ReasonNamesExceededCeiling ==
  \A p \in Uploads :
    IsZipUpload(p) /\ Finished(p) =>
      LET entries == file[p].entries
          u == SumSize(entries)
          c == SumCompressed(entries)
      IN  /\ zres[p].error = "Too many files in ZIP (max 100)"
               => FileCount(entries) > 100
          /\ zres[p].error = "ZIP uncompressed size exceeds limit (50MB)"
               => u > 52428800
          /\ StartsWith(zres[p].error, "Suspicious compression ratio (")
               => c > 0 /\ u > 100 * c
          /\ (u = 62914560 /\ FileCount(entries) <= 100 /\ u <= 100 * c)
               => /\ zres[p].status = "thrown"
                  /\ zres[p].error = "ZIP uncompressed size exceeds limit (50MB)"
                  /\ out[p].error
                       = "Failed to process file: ZIP uncompressed size exceeds limit (50MB)"
                  /\ zres[p].text = <<>> /\ out[p].text = <<>>

\* huge.txt, 60 MiB at ratio 60, rejected for size
C23_Witness ==
  \E p \in Uploads :
    /\ pstate[p] = "failed"
    /\ SumSize(file[p].entries) = 62914560
    /\ FileCount(file[p].entries) = 1
    /\ zres[p].error = "ZIP uncompressed size exceeds limit (50MB)"
    /\ out[p].text = <<>>

\* the content of the file of p between a fence labelled with the extension
\* of its stored name without the dot, and a closing fence
FencedContent(p) ==
  LET ext == toLowerCase(extname(file[p].filePath))
  IN  << Lit(Fence \o SubSeq(ext, 2, Len(ext)) \o "\n") >> \o file[p].content
        \o << Lit("\n" \o Fence) >>

IsCodeUpload(p) == toLowerCase(extname(file[p].filePath)) \in CodeCases

\* C30 as stated: for every content of a directly uploaded code file the
\* returned text is the content inside the labelled fence.
C30_CodeAlwaysFenced ==
  \A p \in Uploads :
    pstate[p] = "returned" /\ IsCodeUpload(p) => out[p].text = FencedContent(p)

\* C30 amended: the returned text is the content inside the labelled fence
\* when that is at most 50,000 characters long, and its first 50,000
\* characters otherwise.
C30_CodeFencedThenCut ==
  \A p \in Uploads :
    pstate[p] = "returned" /\ IsCodeUpload(p)
      => /\ Untruncated(p) = FencedContent(p)
         /\ TextLen(FencedContent(p)) = TextLen(file[p].content) + Len(Fence) * 2
                                          + Len(extname(file[p].filePath)) + 1
         /\ out[p].text = IF TextLen(FencedContent(p)) <= 50000 THEN FencedContent(p)
                          ELSE substring(FencedContent(p), 50000)

\* script.py with 11 characters came back inside the fence labelled py
C30_Witness ==
  \E p \in Uploads :
    /\ pstate[p] = "returned"
    /\ file[p].originalName = "script.py"
    /\ out[p].text = << Lit(Fence \o "py\n"), [src |-> "file", len |-> 11],
                        Lit("\n" \o Fence) >>

\* C25: two extractions of the same archive, whatever else is processed
\* meanwhile, return the same text and the same warnings in the same order.
C25_SameArchiveSameResult ==
  \A p, q \in Uploads :
    /\ file[p].entries = file[q].entries
    /\ zres[p].status = "returned" /\ zres[q].status = "returned"
    => /\ zres[p].text = zres[q].text
       /\ zres[p].warnings = zres[q].warnings

\* an upper bound of the steps that processZipFile takes on an archive from
\* its entry loop to its return: one per entry, and for an archive entry the
\* staging, the write, the open, the nested call and the unlink
RECURSIVE StepsOf(_)
StepsOf(entries) ==
  1 + Sum([ j \in 1..Len(entries) |->
              IF ~entries[j].isDirectory /\ IsZipEntry(entries[j])
              THEN 4 + StepsOf(entries[j].data) ELSE 1 ])

\* the steps that an active call still has before it, its nested call apart
StepsLeft(f) ==
  LET rest == StepsOf(SubSeq(f.entries, f.i + 1, Len(f.entries)))
  IN  IF f.i > Len(f.entries) THEN 1
      ELSE IF f.pc = "walk" THEN StepsOf(SubSeq(f.entries, f.i, Len(f.entries)))
      ELSE IF f.pc = "staged" THEN 3 + StepsOf(Entry(f).data) + rest
      ELSE IF f.pc = "written" THEN 2 + StepsOf(Entry(f).data) + rest
      ELSE 1 + rest

\* the steps that request p still has before it
Work(p) ==
  IF pstate[p] = "idle"
  THEN IF IsZipUpload(p) THEN 1 + StepsOf(file[p].entries) ELSE 1
  ELSE IF pstate[p] = "zip"
  THEN Sum([ k \in 1..Len(stack[p]) |-> StepsLeft(stack[p][k]) ])
  ELSE 0

\* C26: the chain of active processZipFile calls of an upload is never longer
\* than the nesting-depth limit plus the top-level call, an upload that has
\* not come to its end has a call that can take its next step, and the steps
\* taken and the steps left never sum to more than the bound that the archive
\* gives, so the top-level call comes to its end: it returns or it fails.
C26_TerminatesWithBoundedDepth ==
  \A p \in Uploads :
    /\ Len(stack[p]) <= MAX_NESTING_DEPTH + 1
    /\ pstate[p] = "zip" =>
          /\ stack[p] # <<>>
          /\ Top(p).pc \in {"walk", "staged", "written", "unlink"}
          /\ Top(p).pc # "walk" => Top(p).i <= Len(Top(p).entries)
          /\ Work(p) > 0
    /\ pstate[p] = "idle" => Work(p) > 0
    /\ steps[p] + Work(p) <= 1 + StepsOf(file[p].entries)
    /\ Finished(p) => Work(p) = 0

\* three calls are active: the uploaded archive, n1.zip and n2.zip
C26_Witness ==
  \E p \in Uploads :
    /\ Len(stack[p]) = MAX_NESTING_DEPTH + 1
    /\ Top(p).nestingLevel = MAX_NESTING_DEPTH
    /\ Top(p).pc = "walk"

C24_SameErrorText ==
  \A p, q \in Uploads :
    (resp[p].status = 500 /\ resp[q].status = 500) => resp[p].error = resp[q].error

\* C29: whatever fileId the list, delete and chat requests of a session carry,
\* every entry that they list, delete or take the text of is the entry of an
\* upload of that same session, and a stored upload is gone from the disk
\* only after a delete request of its own session.
C29_OnlyOwnFiles ==
  /\ \A s \in Sessions : \A r \in log[s] :
       /\ r.entry.path.dir = s
       /\ \E p \in Uploads : owner[p] = s /\ r.entry = SessionEntry(p)
  /\ \A p \in Uploads :
       (resp[p].status = 200 /\ DiskFile(owner[p], file[p].filePath, 0) \notin disk) =>
          [op |-> "delete", entry |-> SessionEntry(p)] \in log[owner[p]]

\* session sA asked for a chat about the file that session sB uploaded: the
\* answer was 404, no request of sA obtained anything, and the file is still
\* there for sB
C29_Witness ==
  \E q \in Uploads :
    /\ owner[q] = "sB"
    /\ resp[q].status = 200
    /\ ans["sA"] = [op |-> "chat", fileId |-> file[q].filePath, status |-> 404]
    /\ asks = MaxAsk
    /\ log["sA"] = {}
    /\ file[q].filePath \in DOMAIN session["sB"]
    /\ DiskFile("sB", file[q].filePath, 0) \in disk

RECURSIVE SumOver(_, _)
SumOver(f, S) ==
  IF S = {} THEN 0
  ELSE LET x == CHOOSE y \in S : TRUE IN f[x] + SumOver(f, S \ {x})

\* the requests of session s that passed the limiter in the 60 minutes that
\* end now
PassedInLastHour(s) == SumOver(passes[s], Instants)

\* C27: in no interval of 60 minutes do more than UPLOAD_RATE_LIMIT_PER_HOUR
\* requests of one session pass rateLimitUpload.
C27_AtMostLimitPerHour ==
  \A s \in Sessions : PassedInLastHour(s) <= UPLOAD_RATE_LIMIT_PER_HOUR

\* C28: when a sweep has completed, no file that was older than the retention
\* period when the sweep began is left; when the cleanup of a logout has
\* ended, none of the files of the session and not its directory are left;
\* and no file lies in a session directory that has been removed.
C28_NoFileSurvives ==
  /\ sweep.pc = "done" => \A d \in disk : sweep.now - d.mtime <= FILE_RETENTION_MS
  /\ \A s \in Sessions :
       logout[s].pc = "done" => s \notin dirs /\ \A d \in disk : d.dir # s
  /\ \A d \in disk : d.dir \in dirs

\* C31: when the top-level processZipFile call of an upload has returned or
\* failed, no temporary file that the upload wrote to stage a nested archive
\* is left in os.tmpdir().
C31_NoTempFileLeft ==
  \A p \in Uploads :
    (Finished(p) /\ IsZipUpload(p)) => \A t \in Stamps : tmp[t].writer # p

\* C32: every active processZipFile call of an upload runs at a nesting level
\* of at most MAX_NESTING_DEPTH, the level of a call being the number of
\* calls around it; no call fails with 'ZIP nesting too deep' at its entry,
\* so that text is in no warning and in no error.
C32_EntryDepthCheckNeverFails ==
  LET msg == "ZIP nesting too deep (max " \o ToString(MAX_NESTING_DEPTH) \o " levels)"
      Ends(w) == Len(w) >= Len(msg) /\ SubSeq(w, Len(w) - Len(msg) + 1, Len(w)) = msg
  IN  \A p \in Uploads :
        /\ \A k \in 1..Len(stack[p]) :
             /\ stack[p][k].nestingLevel = k - 1
             /\ stack[p][k].nestingLevel <= MAX_NESTING_DEPTH
             /\ \A j \in 1..Len(stack[p][k].warnings) : ~Ends(stack[p][k].warnings[j])
        /\ \A j \in 1..Len(zres[p].warnings) : ~Ends(zres[p].warnings[j])
        /\ ~Ends(zres[p].error)
        /\ ~Ends(out[p].error)

\* the archive n1.zip > n2.zip > n3.zip was processed: n3.zip, met at level
\* 2, is in the result as a 'Skipped nested ZIP (too deep)' warning
C32_Witness ==
  \E p \in Uploads :
    /\ HasChain(p)
    /\ zres[p].status = "returned"
    /\ \E j \in 1..Len(zres[p].warnings) :
         zres[p].warnings[j] = "Skipped nested ZIP (too deep): n3.zip"
    /\ out[p].ok

\* the staged file of upload p is in the upload directory of its session
OnDisk(p) == \E d \in disk : d.dir = owner[p] /\ d.name = file[p].filePath

\* the session of upload p offers its fileId
Offered(p) == file[p].filePath \in DOMAIN session[owner[p]]

\* C33: once an upload request has been answered, and after every later
\* request and every step of the sweep, the session offers the fileId of the
\* upload exactly when the staged file is in the upload directory of the
\* session.
C33_RegistryMatchesDisk ==
  \A p \in Uploads : resp[p] # NoResponse => (Offered(p) <=> OnDisk(p))

\* C34: a delete request of a session for a fileId that the session holds
\* leaves the session without that fileId, whatever the sweep has done to the
\* file; a delete request for a fileId that the session does not hold is
\* answered 404 and changes neither the session nor the disk.
C34_DeleteRemovesEntry ==
  [][ \A s \in Sessions :
        (asks' = asks + 1 /\ ans'[s] # ans[s] /\ ans'[s].op = "delete") =>
           LET fileId == ans'[s].fileId
           IN  IF fileId \in DOMAIN session[s]
               THEN fileId \notin DOMAIN session'[s]
               ELSE ans'[s].status = 404 /\ session' = session /\ disk' = disk ]_vars

\* C35: the count stored for a key is at least 1 and at most the limit; a
\* request is answered 429 exactly when the key has an entry whose window has
\* not expired and whose count has reached the limit, and then no counter
\* changes; a request after the window expired starts a window with count 1;
\* the purge removes only the entries whose window expired more than an hour
\* ago and leaves the others as they are.
C35_CounterWithinLimit ==
  /\ [](\A s \in Sessions :
          uploadCounts[s] # NoCount =>
            /\ uploadCounts[s].count >= 1
            /\ uploadCounts[s].count <= UPLOAD_RATE_LIMIT_PER_HOUR)
  /\ [][ \A s \in Sessions :
           LET data == uploadCounts[s]
               live == data # NoCount /\ ~(data.resetTime < clock)
               full == live /\ data.count >= UPLOAD_RATE_LIMIT_PER_HOUR
           IN  /\ (clock' = clock /\ limited'[s] /\ ~limited[s]) =>
                    full /\ uploadCounts' = uploadCounts /\ passes' = passes
               /\ (clock' = clock /\ passes'[s] # passes[s]) =>
                    /\ ~full
                    /\ ~limited'[s]
                    /\ uploadCounts'[s] =
                         IF live THEN [data EXCEPT !.count = @ + 1]
                         ELSE [count |-> 1, resetTime |-> clock + HOUR_MS]
               /\ (data # NoCount /\ uploadCounts'[s] = NoCount) =>
                    data.resetTime < clock - HOUR_MS
               /\ (passes' = passes /\ limited' = limited /\ clock' = clock
                     /\ uploadCounts' # uploadCounts) =>
                    uploadCounts'[s] \in {data, NoCount} ]_vars

\* a key whose window is full: its count is the limit, ten of its requests
\* passed at time 0, and the last one was answered 429
C35_Witness ==
  \E s \in Sessions :
    /\ uploadCounts[s] = [count |-> UPLOAD_RATE_LIMIT_PER_HOUR, resetTime |-> HOUR_MS]
    /\ passes[s][0] = UPLOAD_RATE_LIMIT_PER_HOUR
    /\ limited[s]
    /\ clock = 2

\* C36: a compression never drops recent messages: it runs only on a
\* conversation of more than keepRecentCount messages, and when it is over,
\* with a summary or without one, the session holds exactly the last ten
\* messages in their order; a new summary is set and begins with the earlier
\* one.
C36_CompressionKeepsRecent ==
  [][ \A r \in ChatReqs :
        chat[r].pc = "summarising" /\ chat'[r].pc = "call" =>
          LET before == arrays[memData[r].messages]
              after  == arrays'[memData'[r].messages]
              old    == memData[r].summary
              new    == memData'[r].summary
          IN  /\ Len(before) > 10
              /\ Len(after) = 10
              /\ \A i \in 1..10 : after[i] = before[Len(before) - 10 + i]
              /\ chat'[r].compressed = "summary" =>
                   /\ new # ""
                   /\ Len(new) >= Len(old)
                   /\ SubSeq(new, 1, Len(old)) = old
              /\ chat'[r].compressed # "summary" => new = old ]_vars

C36_Witness ==
  \E r \in ChatReqs :
    /\ chat[r].pc = "call"
    /\ chat[r].compressed = "summary"
    /\ Len(arrays[memData[r].messages]) = 10
    /\ arrays[memData[r].messages][10] = Message("user", 100 + r, 120000)
    /\ memData[r].summary = "They met.\n\nThey spoke of files."

\* the messages are a question, its answer, a question, its answer, and so on
Alternates(messages) ==
  /\ Len(messages) % 2 = 0
  /\ \A i \in 1..Len(messages) :
       messages[i].role = IF i % 2 = 1 THEN "user" ELSE "assistant"

\* C37: when a /chat request of a session is completed, none is under way,
\* and the conversation of the session was never compressed, the stored
\* conversation alternates user and assistant messages from a user message
\* on, also when the model call of a request has failed.
C37_AlternatesAfterRequest ==
  \A s \in Sessions :
    ( /\ \E r \in ChatReqs : chat[r].session = s /\ chat[r].pc = "done"
      /\ \A r \in ChatReqs :
           chat[r].session = s => chat[r].pc \in {"new", "done"} /\ chat[r].compressed = "no"
      /\ saved[s].summary = "" )
    => Alternates(saved[s].messages)

====
